---- MODULE Spec2Model ----
(***************************************************************************)
(* nvidiactl: the adaptive control loop of cmd/nvidiactl/main.go on top of *)
(* the device facade of internal/gpu (controller, fanController,           *)
(* powerController).                                                       *)
(*                                                                         *)
(* Spec      the process: the main goroutine running AppState.loop, the    *)
(*           signal goroutine of run, and the executions of                *)
(*           AppState.cleanup, interleaved at the granularity of one       *)
(*           facade call per step.                                         *)
(* FairSpec  Spec under the scheduling of the goroutines and the timer.    *)
(* CalcSpec  the regulators as functions: calculatePowerLimit and the      *)
(*           apply step of handlePowerLimit on inputs drawn from bounded   *)
(*           sets.                                                         *)
(* FanSpec   calculateFanSpeed as a function, in the float64 arithmetic of *)
(*           the code, on inputs drawn from bounded sets.                  *)
(* LoopSpec  Spec started with any interval, also one that configuration   *)
(*           validation rejects.                                           *)
(* WindowSpec  the moving-average windows of controller and                *)
(*           powerController fed with drawn samples.                       *)
(* SchemaSpec  metrics.ValidateAndUpdateSchema on a database left by an    *)
(*           earlier run.                                                  *)
(* LogSpec   Spec at every log level the configuration accepts.            *)
(* RegimeSpec  the power regulator while the temperature stays on one side *)
(*           of the target, under the firing of the ticker.                *)
(* RepoSpec  the metrics repository: Record, the flusher and Close.        *)
(* ControllerSpec  the life cycle of gpu.controller.                       *)
(* PidSpec   the PID file and concurrently started instances.              *)
(***************************************************************************)
EXTENDS Integers, Sequences, FiniteSets, TLC

VARIABLES
    cfg,            \* config.Provider: immutable configuration of the run
    limits,         \* powerController.limits, fetched once at initialization
    loopErr,        \* error code the loop returned, "none" while it has not
    loopPc,         \* position of the main goroutine (run / AppState.loop)
    tick,           \* number of ticks started (ticker.C deliveries taken)
    st,             \* GPUState of the tick in progress
    tgt,            \* setGPUState's targetFanSpeed and targetPowerLimit
    autoFanControl, \* AppState.autoFanControl
    cancelled,      \* ctx of run has been cancelled
    sigPc,          \* position of the signal goroutine of run
    cleanupPc,      \* position of each execution of AppState.cleanup
    exit,           \* how the process has ended, "running" while it has not
    initialized,    \* controller.initialized (fan/power controllers non-nil)
    speeds,         \* fanController.speeds[0]
    lastSpeeds,     \* fanController.lastSpeeds[0]
    autoMode,       \* fanController.autoMode
    currentLimit,   \* powerController.currentLimit
    lastLimit,      \* powerController.lastLimit
    tempHistory,    \* controller.tempHistory
    powerHistory,   \* powerController.powerHistory
    historyUpdate,  \* the history-update goroutine of getGPUState that outlived its
                    \* timeout: its position and arguments
    devPower,       \* hardware: enforced power-management limit (W)
    devFan,         \* hardware: fan speed (%)
    devFanAuto,     \* hardware: fan under the default (automatic) policy
    metricsClosed,  \* number of Close calls made on the metrics collaborator
    faults,         \* number of hardware faults (failed or timed-out calls)
    issued,         \* history: the facade commands issued by the tick in progress and
                    \* by each execution of cleanup, in order
    calc,           \* CalcSpec: inputs and result of one calculatePowerLimit call
    reg,            \* CalcSpec: a balanced-mode power regulator over successive ticks
    fcalc,          \* FanSpec: inputs and results of calculateFanSpeed calls
    win,            \* WindowSpec: a moving-average window, the samples that arrived
                    \* and the average its last update returned
    sch,            \* SchemaSpec: the metrics database, its backups and the
                    \* position of ValidateAndUpdateSchema
    repo,           \* RepoSpec: the metrics repository, its flusher goroutine
                    \* and the position of its Close
    ctl,            \* ControllerSpec: the fields of gpu.controller and its last
                    \* call
    pidf            \* PidSpec: the PID file and the instances of the program

mainVars == <<cfg, limits, loopErr, loopPc, tick, st, tgt, autoFanControl, cancelled, sigPc,
              cleanupPc, exit, initialized, speeds, lastSpeeds, autoMode,
              currentLimit, lastLimit, tempHistory, powerHistory, historyUpdate, devPower,
              devFan, devFanAuto, metricsClosed, issued, faults>>
calcVars == <<calc, reg, fcalc, win, sch, repo, ctl, pidf>>
vars == <<cfg, limits, loopErr, loopPc, tick, st, tgt, autoFanControl, cancelled, sigPc,
          cleanupPc, exit, initialized, speeds, lastSpeeds, autoMode,
          currentLimit, lastLimit, tempHistory, powerHistory, historyUpdate, devPower,
          devFan, devFanAuto, metricsClosed, issued, faults, calc, reg, fcalc, win, sch, repo,
          ctl, pidf>>

----------------------------------------------------------------------------
(* Program constants.                                                      *)

minTemperature == 50
maxPowerLimitChange == 10
wattsPerDegree == 5
powerLimitHysteresis == 5
restorationFactor == 2
temperatureWindowSize == 5
SchemaVersion == 2
powerLimitWindowSize == 5

(* Configuration defaults (temperature ceiling, fan ceiling, hysteresis).  *)
cfgTemperature == 80
cfgFanSpeed == 100
cfgHysteresis == 4

(* Capability limits the hardware reports at initialization.               *)
FanSpeedMin == 30
FanSpeedMax == 100
PowerMin == 100
PowerMax == 130
PowerDefaults == {120}

(* Bounds of the model.                                                    *)
MaxTicks == 2
MaxFaults == 1
Slack == 7
TempSpan == 3
MaxSamples == 6
MaxVersion == 3
MaxRows == 2
MaxRuns == 2
MaxSnapshots == 3
MaxCalls == 5
MaxProcs == 3

(* Values the environment can produce.                                     *)
Temps == {50, 82}
AutoFanReadings == {96, 100}
InitialPowerLimits == {125}
Intervals == {2}
LoopIntervals == {-1, 0, 2}
WinSamples == {70 + 2 * k : k \in 0..5}
CalcTemps == (cfgTemperature - TempSpan)..(cfgTemperature + TempSpan)
CalcFans == {30, 60, 100}
CalcMaxFans == {60, 100}
CalcLimits == (PowerMin - Slack)..(PowerMax + Slack)
FanTemps == (minTemperature - TempSpan)..(cfgTemperature + TempSpan)
FanMaxTemperatures == {minTemperature - 2, cfgTemperature - 10, cfgTemperature}
FanCaps == {20, cfgFanSpeed}
FanLimits == {[Min |-> 0, Max |-> 100], [Min |-> FanSpeedMin, Max |-> FanSpeedMax]}

----------------------------------------------------------------------------
(* Helpers of cmd/nvidiactl/main.go.                                       *)

abs(x) == IF x < 0 THEN -x ELSE x

clamp(value, minValue, maxValue) ==
    IF value < minValue THEN minValue
    ELSE IF value > maxValue THEN maxValue
    ELSE value

Min2(a, b) == IF a < b THEN a ELSE b

applyHysteresis_strict(newSpeed, currentSpeed, hysteresis) ==
    abs(newSpeed - currentSpeed) < hysteresis

applyHysteresis(newSpeed, currentSpeed, hysteresis) ==
    abs(newSpeed - currentSpeed) <= hysteresis

RECURSIVE SumSeq(_)
SumSeq(s) == IF s = <<>> THEN 0 ELSE Head(s) + SumSeq(Tail(s))

Push_keepsOldest(history, sample, size) ==
    LET h == Append(history, sample)
    IN  IF Len(h) > size THEN SubSeq(h, 1, size) ELSE h

(* append, evict the oldest beyond the window, as both Update*History do   *)
Push(history, sample, size) ==
    LET h == Append(history, sample)
    IN  IF Len(h) > size THEN Tail(h) ELSE h

Average_byWindowSize(history) == SumSeq(history) \div temperatureWindowSize

(* truncating integer mean, samples are non-negative                       *)
Average(history) == SumSeq(history) \div Len(history)

----------------------------------------------------------------------------
(* float64 arithmetic (IEEE-754 binary64, round to nearest, ties to even)  *)
(* on values m * 2^e, m a natural number of at most 53 significant bits    *)
(* held as a sequence of 14-bit limbs, least significant first.            *)

mantissaBits == 53
limbBits == 14
divLimbs == 5

RECURSIVE Pow2(_)
Pow2(n) == IF n = 0 THEN 1 ELSE 2 * Pow2(n - 1)

limbBase == Pow2(limbBits)

Limb(x, i) == IF i >= 1 /\ i <= Len(x) THEN x[i] ELSE 0

RECURSIVE Trim(_)
Trim(x) == IF x # <<>> /\ x[Len(x)] = 0 THEN Trim(SubSeq(x, 1, Len(x) - 1)) ELSE x

RECURSIVE SmallBitLen(_)
SmallBitLen(n) == IF n = 0 THEN 0 ELSE 1 + SmallBitLen(n \div 2)

BitLen(x) ==
    LET t == Trim(x)
    IN  IF t = <<>> THEN 0 ELSE limbBits * (Len(t) - 1) + SmallBitLen(t[Len(t)])

BitOf(x, k) == (Limb(x, k \div limbBits + 1) \div Pow2(k % limbBits)) % 2

(* bits 0..k-1 of x are all zero                                           *)
LowZero(x, k) ==
    /\ \A i \in 1..(k \div limbBits) : Limb(x, i) = 0
    /\ Limb(x, k \div limbBits + 1) % Pow2(k % limbBits) = 0

ShiftRight(x, s) ==
    LET q == s \div limbBits
        r == s % limbBits
    IN  Trim([j \in 1..(Len(x) - q) |->
                (Limb(x, q + j) \div Pow2(r))
                + (Limb(x, q + j + 1) % Pow2(r)) * Pow2(limbBits - r)])

RECURSIVE IncNat(_)
IncNat(x) ==
    IF x = <<>> THEN <<1>>
    ELSE IF x[1] + 1 < limbBase THEN <<x[1] + 1>> \o Tail(x)
    ELSE <<0>> \o IncNat(Tail(x))

RECURSIVE Column(_, _, _, _)
Column(x, y, k, i) ==
    IF i > Len(x) \/ i > k THEN 0
    ELSE Limb(x, i) * Limb(y, k + 1 - i) + Column(x, y, k, i + 1)

RECURSIVE MulFrom(_, _, _, _)
MulFrom(x, y, k, carry) ==
    IF k > Len(x) + Len(y) THEN <<>>
    ELSE LET c == Column(x, y, k, 1)
             lo == (c % limbBase) + (carry % limbBase)
             hi == (c \div limbBase) + (carry \div limbBase)
         IN  <<lo % limbBase>> \o MulFrom(x, y, k + 1, hi + (lo \div limbBase))

MulNat(x, y) == Trim(MulFrom(x, y, 1, 0))

(* the binary64 nearest to x * 2^e                                         *)
Round(x, e) ==
    IF BitLen(x) <= mantissaBits THEN [m |-> Trim(x), e |-> e]
    ELSE LET s == BitLen(x) - mantissaBits
             q == ShiftRight(x, s)
             up == /\ BitOf(x, s - 1) = 1
                   /\ (~LowZero(x, s - 1) \/ q[1] % 2 = 1)
         IN  [m |-> IF up THEN IncNat(q) ELSE q, e |-> e + s]

(* x * y                                                                   *)
FMul(x, y) == Round(MulNat(x.m, y.m), x.e + y.e)

(* float64(n) for 0 <= n < 2^14                                            *)
FInt(n) == [m |-> <<n>>, e |-> 0]

(* the limbs, most significant first, of floor(r * limbBase^n / b)         *)
RECURSIVE DivLimbs(_, _, _)
DivLimbs(r, b, n) ==
    IF n = 0 THEN <<>>
    ELSE <<(r * limbBase) \div b>> \o DivLimbs((r * limbBase) % b, b, n - 1)

RECURSIVE DivRem(_, _, _)
DivRem(r, b, n) == IF n = 0 THEN r ELSE DivRem((r * limbBase) % b, b, n - 1)

Reverse(x) == [i \in 1..Len(x) |-> x[Len(x) + 1 - i]]

(* float64(a) / float64(b) for 0 < a < b < 2^10: the quotient to 70 bits   *)
(* with an inexact remainder folded into its lowest bit, then rounded      *)
FDiv(a, b) ==
    LET q == Reverse(DivLimbs(a, b, divLimbs))
        sticky == IF DivRem(a, b, divLimbs) # 0 /\ q[1] % 2 = 0 THEN 1 ELSE 0
    IN  Round(<<q[1] + sticky>> \o Tail(q), -(limbBits * divLimbs))

(* int(x) for a finite 0 <= x < 2^14                                       *)
FTrunc(x) ==
    IF x.e >= 0 THEN Limb(x.m, 1) * Pow2(x.e)
    ELSE Limb(ShiftRight(x.m, -x.e), 1)

----------------------------------------------------------------------------
(* Fan Regulator: calculateFanSpeed / calculateFanSpeedPercentage, for     *)
(* a = t - minTemperature and b = maxTemperature - minTemperature,         *)
(* 0 < a < b.                                                              *)

(* int(float64(r) * math.Pow(float64(a) / float64(b), 2.0)) for r >= 0;    *)
(* math.Pow squares the operand with one rounding                          *)
SquareScaled(r, a, b) ==
    IF r = 0 THEN 0
    ELSE LET p == FDiv(a, b)
         IN  FTrunc(FMul(FInt(r), FMul(p, p)))

(* floor(r * (a/b)^1.5) for r >= 0                                         *)
RECURSIVE FloorPow15(_, _, _, _)
FloorPow15(r, a, b, k) ==
    IF (k + 1) * (k + 1) * b * b * b <= r * r * a * a * a
    THEN FloorPow15(r, a, b, k + 1)
    ELSE k

(* int(float64(r) * math.Pow(float64(a) / float64(b), 1.5)) for r >= 0.    *)
(* math.Pow computes Exp(0.5 * Log(p)) * p, accurate to a few units in the *)
(* last place: the result is the floor of the exact product, which lies    *)
(* 1e-7 or more away from the integers unless it is one; when it is one    *)
(* the rounding of Exp and Log (roundsDown) decides between it and the     *)
(* integer below.                                                          *)
Pow15Scaled(r, a, b, roundsDown) ==
    LET k == FloorPow15(r, a, b, 0)
    IN  IF roundsDown /\ k > 0 /\ k * k * b * b * b = r * r * a * a * a
        THEN k - 1 ELSE k

(* int(float64(fanSpeedRange) * fanSpeedPercentage): conversion to int     *)
(* truncates toward zero                                                   *)
calculateFanSpeedPercentage(fanSpeedRange, a, b, performance, roundsDown) ==
    LET r == abs(fanSpeedRange)
        v == IF performance THEN Pow15Scaled(r, a, b, roundsDown)
             ELSE SquareScaled(r, a, b)
    IN  IF fanSpeedRange < 0 THEN -v ELSE v

calculateFanSpeed_hwmax(averageTemperature, maxTemperature, configMaxFanSpeed, limMin, limMax, performance, roundsDown) ==
    LET maxFanSpeed == Min2(limMax, configMaxFanSpeed)
    IN  IF averageTemperature <= minTemperature THEN limMin
        ELSE IF averageTemperature >= maxTemperature THEN limMax
        ELSE clamp(calculateFanSpeedPercentage(maxFanSpeed - limMin,
                        averageTemperature - minTemperature,
                        maxTemperature - minTemperature, performance, roundsDown)
                     + limMin,
                   limMin, maxFanSpeed)

calculateFanSpeed(averageTemperature, maxTemperature, configMaxFanSpeed, limMin, limMax, performance, roundsDown) ==
    LET maxFanSpeed == Min2(limMax, configMaxFanSpeed)
    IN  IF averageTemperature <= minTemperature THEN limMin
        ELSE IF averageTemperature >= maxTemperature THEN maxFanSpeed
        ELSE clamp(calculateFanSpeedPercentage(maxFanSpeed - limMin,
                        averageTemperature - minTemperature,
                        maxTemperature - minTemperature, performance, roundsDown)
                     + limMin,
                   limMin, maxFanSpeed)

----------------------------------------------------------------------------
(* Power Regulator: calculatePowerLimit.                                   *)

ReduceAdjustment_uncapped(tempDiff) == tempDiff * wattsPerDegree

ReduceAdjustment(tempDiff) ==
    Min2(tempDiff * wattsPerDegree, maxPowerLimitChange)

RestoreAdjustment_factor1(tempDiff) ==
    Min2((-tempDiff) * wattsPerDegree, maxPowerLimitChange)

RestoreAdjustment(tempDiff) ==
    Min2((-tempDiff) * wattsPerDegree * restorationFactor, maxPowerLimitChange)

calculatePowerLimit_anyfan(currentTemperature, targetTemperature, currentFanSpeed, maxFanSpeed, currentPowerLimit, limMin, limMax) ==
    LET tempDiff == currentTemperature - targetTemperature
    IN  IF tempDiff > 0
        THEN clamp(currentPowerLimit - ReduceAdjustment(tempDiff), limMin, limMax)
        ELSE IF tempDiff < 0
        THEN clamp(currentPowerLimit + RestoreAdjustment(tempDiff), limMin, limMax)
        ELSE currentPowerLimit

calculatePowerLimit(currentTemperature, targetTemperature, currentFanSpeed, maxFanSpeed, currentPowerLimit, limMin, limMax) ==
    LET tempDiff == currentTemperature - targetTemperature
    IN  IF tempDiff > 0 /\ currentFanSpeed >= maxFanSpeed
        THEN clamp(currentPowerLimit - ReduceAdjustment(tempDiff), limMin, limMax)
        ELSE IF tempDiff < 0
        THEN clamp(currentPowerLimit + RestoreAdjustment(tempDiff), limMin, limMax)
        ELSE currentPowerLimit

(* the local `adjustment` of calculatePowerLimit, 0 on the hold path       *)
Adjustment(currentTemperature, targetTemperature, currentFanSpeed, maxFanSpeed) ==
    LET tempDiff == currentTemperature - targetTemperature
    IN  IF tempDiff > 0 /\ currentFanSpeed >= maxFanSpeed
        THEN ReduceAdjustment(tempDiff)
        ELSE IF tempDiff < 0 THEN RestoreAdjustment(tempDiff)
        ELSE 0

(* handlePowerLimit: the value it passes to SetPowerLimit, as a sequence   *)
(* of at most one element.                                                 *)
PowerLimitWrite_inclusive(performance, targetPowerLimit, current, maxPowerLimit) ==
    IF ~performance
    THEN IF abs(targetPowerLimit - current) >= powerLimitHysteresis
         THEN <<targetPowerLimit>> ELSE <<>>
    ELSE IF current < maxPowerLimit THEN <<maxPowerLimit>> ELSE <<>>

PowerLimitWrite(performance, targetPowerLimit, current, maxPowerLimit) ==
    IF ~performance
    THEN IF ~applyHysteresis(targetPowerLimit, current, powerLimitHysteresis)
         THEN <<targetPowerLimit>> ELSE <<>>
    ELSE IF current < maxPowerLimit THEN <<maxPowerLimit>> ELSE <<>>

----------------------------------------------------------------------------
(* The device facade (gpu.controller and its fan and power controllers).   *)

Execs == {"signal", "main"}

ZeroState == [CurrentTemperature |-> 0, AverageTemperature |-> 0,
              CurrentFanSpeed |-> 0, TargetFanSpeed |-> 0,
              CurrentPowerLimit |-> 0, TargetPowerLimit |-> 0,
              AveragePowerLimit |-> 0]

(* outcomes of one hardware call: success, or failure while the fault      *)
(* budget lasts                                                            *)
HwOutcomes == IF faults < MaxFaults THEN BOOLEAN ELSE {TRUE}

(* the command log: one more facade call made by src                       *)
Issue(src, op, val, res) ==
    issued' = [issued EXCEPT ![src] = Append(@, [op |-> op, val |-> val, res |-> res])]

(* controller.GetPowerLimits: the zero PowerLimits once the power          *)
(* controller is nil                                                       *)
GetPowerLimits ==
    IF initialized THEN limits ELSE [Min |-> 0, Max |-> 0, Default |-> 0]

(* controller.GetFanSpeedLimits                                            *)
GetFanSpeedLimits ==
    IF initialized THEN [Min |-> FanSpeedMin, Max |-> FanSpeedMax]
    ELSE [Min |-> 0, Max |-> 0]

(* controller.SetPowerLimit -> powerController.SetLimit                    *)
SetPowerLimitResult(limit, hwOk) ==
    IF ~initialized THEN "ErrNotInitialized"
    ELSE IF limit < limits.Min \/ limit > limits.Max THEN "ErrInvalidArgument"
    ELSE IF ~hwOk THEN "ErrSetPowerLimit"
    ELSE "ok"

SetPowerLimit(src, limit, hwOk) ==
    LET res == SetPowerLimitResult(limit, hwOk)
    IN  /\ Issue(src, "SetPowerLimit", limit, res)
        /\ faults' = IF res = "ErrSetPowerLimit" THEN faults + 1 ELSE faults
        /\ IF res = "ok"
           THEN /\ devPower' = limit
                /\ lastLimit' = currentLimit
                /\ currentLimit' = limit
           ELSE UNCHANGED <<devPower, lastLimit, currentLimit>>

(* controller.SetFanSpeed -> fanController.SetSpeed                        *)
SetFanSpeedResult(speed, hwOk) ==
    IF ~initialized THEN "ErrNotInitialized"
    ELSE IF speed < FanSpeedMin \/ speed > FanSpeedMax THEN "ErrInvalidArgument"
    ELSE IF ~hwOk THEN "ErrSetFanSpeed"
    ELSE "ok"

SetFanSpeed(src, speed, hwOk) ==
    LET res == SetFanSpeedResult(speed, hwOk)
    IN  /\ Issue(src, "SetFanSpeed", speed, res)
        /\ faults' = IF res = "ErrSetFanSpeed" THEN faults + 1 ELSE faults
        /\ lastSpeeds' = IF res \in {"ok", "ErrSetFanSpeed"} THEN speeds ELSE lastSpeeds
        /\ IF res = "ok"
           THEN /\ speeds' = speed
                /\ autoMode' = FALSE
                /\ devFan' = speed
                /\ devFanAuto' = FALSE
           ELSE UNCHANGED <<speeds, autoMode, devFan, devFanAuto>>

(* controller.EnableAutoFanControl -> fanController.EnableAuto             *)
EnableAutoResult(hwOk) ==
    IF ~initialized THEN "ErrNotInitialized"
    ELSE IF ~hwOk THEN "ErrFanControlFailed"
    ELSE "ok"

EnableAutoFanControl(src, hwOk) ==
    LET res == EnableAutoResult(hwOk)
    IN  /\ Issue(src, "EnableAutoFanControl", 0, res)
        /\ faults' = IF res = "ErrFanControlFailed" THEN faults + 1 ELSE faults
        /\ lastSpeeds' = IF initialized THEN speeds ELSE lastSpeeds
        /\ IF res = "ok"
           THEN /\ autoMode' = TRUE
                /\ devFanAuto' = TRUE
           ELSE UNCHANGED <<autoMode, devFanAuto>>
        /\ UNCHANGED <<speeds, devFan>>

----------------------------------------------------------------------------
(* Initial state: run has written the PID file, newApplication has loaded  *)
(* the configuration and initialized the controller, the signal goroutine  *)
(* is waiting and the main goroutine is about to call loop.                *)

NoTarget == [fan |-> 0, power |-> 0]

NoCalc == [phase |-> "off"]
NoReg == [phase |-> "off"]
NoFan == [phase |-> "off"]
NoWindow == [kind |-> "off"]
NoSchema == [pc |-> "off"]
NoRepo == [pc |-> "off"]
NoController == [pc |-> "off"]
NoPid == [pc |-> "off"]
NoUpdate == [pc |-> "idle", temp |-> 0, power |-> 0]

(* Spec runs at the default log level; LogSpec draws the level             *)
Configs == [monitor : BOOLEAN, performance : BOOLEAN, metrics : BOOLEAN,
            interval : Intervals, logLevel : {"info"}]

InitFor(configs) ==
    /\ cfg \in configs
    /\ limits \in [Min : {PowerMin}, Max : {PowerMax}, Default : PowerDefaults]
    /\ loopErr = "none"
    /\ loopPc = "start"
    /\ tick = 0
    /\ st = ZeroState
    /\ tgt = NoTarget
    /\ autoFanControl = FALSE
    /\ cancelled = FALSE
    /\ sigPc = "waiting"
    /\ cleanupPc = [w \in Execs |-> "idle"]
    /\ exit = "running"
    /\ initialized = TRUE
    /\ devFan \in AutoFanReadings
    /\ devFanAuto = TRUE
    /\ speeds = devFan
    /\ lastSpeeds = devFan
    /\ autoMode = TRUE
    /\ devPower \in InitialPowerLimits
    /\ currentLimit = devPower
    /\ lastLimit = devPower
    /\ tempHistory = <<>>
    /\ powerHistory = <<devPower>>
    /\ historyUpdate = NoUpdate
    /\ metricsClosed = 0
    /\ faults = 0
    /\ issued = [src \in Execs \cup {"tick", "record"} |-> <<>>]
    /\ calc = NoCalc
    /\ reg = NoReg
    /\ fcalc = NoFan
    /\ win = NoWindow
    /\ sch = NoSchema
    /\ repo = NoRepo
    /\ ctl = NoController
    /\ pidf = NoPid

Init == InitFor(Configs)

----------------------------------------------------------------------------
(* The main goroutine: run -> AppState.loop.                               *)

Running == exit = "running"

TickPcs == {"getTemperature", "sample", "regulate", "power", "log"}

fanVars == <<speeds, lastSpeeds, autoMode, devFan, devFanAuto>>
powerVars == <<currentLimit, lastLimit, devPower>>
histVars == <<tempHistory, powerHistory, historyUpdate>>
sigVars == <<cancelled, sigPc, cleanupPc, exit, metricsClosed>>
constVars == <<cfg, limits, calc, reg, fcalc, win, sch, repo, ctl, pidf>>
loopVars == <<loopErr, loopPc, tick, st, tgt, autoFanControl>>

(* loop entry: the interval check                                          *)
InvalidInterval_negative(interval) == interval < 0

InvalidInterval(interval) == interval <= 0

LoopStart ==
    /\ Running /\ loopPc = "start"
    /\ IF InvalidInterval(cfg.interval)
       THEN loopPc' = "failed" /\ loopErr' = "ErrInvalidInterval"
       ELSE loopPc' = "select" /\ UNCHANGED loopErr
    /\ UNCHANGED <<tick, st, tgt, autoFanControl, initialized, issued, faults>>
    /\ UNCHANGED <<histVars, fanVars, powerVars, sigVars, constVars>>

(* select: case <-ticker.C                                                 *)
LoopTick ==
    /\ Running /\ loopPc = "select"
    /\ tick < MaxTicks
    /\ tick' = tick + 1
    /\ loopPc' = "getTemperature"
    /\ issued' = [issued EXCEPT !["tick"] = <<>>]
    /\ UNCHANGED <<loopErr, st, tgt, autoFanControl, initialized, faults>>
    /\ UNCHANGED <<histVars, fanVars, powerVars, sigVars, constVars>>

(* select: case <-ctx.Done(); loop returns nil, run returns nil and main   *)
(* returns, which ends the process                                         *)
LoopCancelled ==
    /\ Running /\ loopPc = "select"
    /\ cancelled
    /\ loopPc' = "returned"
    /\ exit' = "main0"
    /\ UNCHANGED <<loopErr, tick, st, tgt, autoFanControl, initialized, issued, faults,
                   cancelled, sigPc, cleanupPc, metricsClosed>>
    /\ UNCHANGED <<histVars, fanVars, powerVars, constVars>>

(* getGPUState: GetTemperature under operationTimeout.  A read that fails  *)
(* (controller not initialized, NVML error) or times out makes             *)
(* getGPUState, and with it loop, return ErrGetGPUState.                   *)
LoopGetTemperature ==
    /\ Running /\ loopPc = "getTemperature"
    /\ \E hwOk \in HwOutcomes :
         IF initialized /\ hwOk
         THEN /\ \E temp \in Temps :
                    st' = [st EXCEPT !.CurrentTemperature = temp]
              /\ loopPc' = "sample"
              /\ UNCHANGED <<loopErr, faults>>
         ELSE /\ loopPc' = "failed"
              /\ loopErr' = "ErrGetGPUState"
              /\ faults' = IF initialized THEN faults + 1 ELSE faults
              /\ UNCHANGED st
    /\ UNCHANGED <<tick, tgt, autoFanControl, initialized, issued>>
    /\ UNCHANGED <<histVars, fanVars, powerVars, sigVars, constVars>>

(* getGPUState: GetCurrentFanSpeeds, GetCurrentPowerLimit, the history     *)
(* updates under operationTimeout, and the construction of GPUState.  A    *)
(* failed fan or power read yields the value the controller last stored;   *)
(* a nil fan-speed list makes currentFanSpeeds[0] panic.  When the timeout *)
(* of the history updates fires, the goroutine that makes them is left     *)
(* running: `landed` tells whether it makes its updates before the         *)
(* GPUState is built, and then avgTemp and avgPowerLimit, written by both  *)
(* goroutines without synchronization, hold either writer's value.         *)
LoopSample ==
    /\ Running /\ loopPc = "sample"
    /\ IF ~initialized
       THEN /\ tempHistory' = Push(tempHistory, st.CurrentTemperature,
                                   temperatureWindowSize)
            /\ exit' = "panic"
            /\ UNCHANGED <<st, powerHistory, historyUpdate, loopPc, faults>>
       ELSE \E failed \in SUBSET {"fan", "power", "history"} :
            \E fanRead \in (IF devFanAuto THEN AutoFanReadings ELSE {devFan}) :
              LET fan == IF "fan" \in failed THEN speeds ELSE fanRead
                  power == IF "power" \in failed THEN currentLimit ELSE devPower
                  th == Push(tempHistory, st.CurrentTemperature, temperatureWindowSize)
                  ph == Push(powerHistory, power, powerLimitWindowSize)
              IN  /\ faults + Cardinality(failed) <= MaxFaults
                  /\ faults' = faults + Cardinality(failed)
                  /\ IF "history" \notin failed
                     THEN /\ tempHistory' = th
                          /\ powerHistory' = ph
                          /\ st' = [st EXCEPT !.CurrentFanSpeed = fan,
                                              !.CurrentPowerLimit = power,
                                              !.AverageTemperature = Average(th),
                                              !.AveragePowerLimit = Average(ph)]
                          /\ UNCHANGED historyUpdate
                     ELSE \E landed \in BOOLEAN :
                          \E avgTemp \in {st.CurrentTemperature} \cup
                                          (IF landed THEN {Average(th)} ELSE {}) :
                          \E avgPowerLimit \in {power} \cup
                                          (IF landed THEN {Average(ph)} ELSE {}) :
                            /\ tempHistory' = IF landed THEN th ELSE tempHistory
                            /\ powerHistory' = IF landed THEN ph ELSE powerHistory
                            /\ historyUpdate' =
                                  IF landed THEN NoUpdate
                                  ELSE [pc |-> "running",
                                        temp |-> st.CurrentTemperature, power |-> power]
                            /\ st' = [st EXCEPT !.CurrentFanSpeed = fan,
                                                !.CurrentPowerLimit = power,
                                                !.AverageTemperature = avgTemp,
                                                !.AveragePowerLimit = avgPowerLimit]
                  /\ loopPc' = "regulate"
                  /\ UNCHANGED exit
    /\ UNCHANGED <<loopErr, tick, tgt, autoFanControl, initialized, issued,
                   cancelled, sigPc, cleanupPc, metricsClosed>>
    /\ UNCHANGED <<fanVars, powerVars, constVars>>

(* getGPUState: GetCurrentFanSpeeds or GetCurrentPowerLimit, called on the *)
(* main goroutine with no timeout, makes a vendor-API call that never      *)
(* returns                                                                 *)
LoopSampleBlocks ==
    /\ Running /\ loopPc = "sample"
    /\ initialized
    /\ loopPc' = "blocked"
    /\ UNCHANGED <<loopErr, tick, st, tgt, autoFanControl, initialized, issued, faults>>
    /\ UNCHANGED <<histVars, fanVars, powerVars, sigVars, constVars>>

(* the history-update goroutine left behind by a timeout makes its         *)
(* updates: UpdateTemperatureHistory, then UpdatePowerLimitHistory (which  *)
(* returns 0 without an update once the power controller is nil)           *)
HistoryUpdateLate ==
    /\ Running /\ historyUpdate.pc = "running"
    /\ tempHistory' = Push(tempHistory, historyUpdate.temp, temperatureWindowSize)
    /\ powerHistory' = IF initialized
                       THEN Push(powerHistory, historyUpdate.power, powerLimitWindowSize)
                       ELSE powerHistory
    /\ historyUpdate' = NoUpdate
    /\ UNCHANGED <<initialized, issued, faults>>
    /\ UNCHANGED <<loopVars, fanVars, powerVars, sigVars, constVars>>

TargetFanSpeed(roundsDown) ==
    calculateFanSpeed(st.AverageTemperature, cfgTemperature, cfgFanSpeed,
                      GetFanSpeedLimits.Min, GetFanSpeedLimits.Max, cfg.performance,
                      roundsDown)

TargetPowerLimit ==
    calculatePowerLimit(st.CurrentTemperature, cfgTemperature, st.CurrentFanSpeed,
                        cfgFanSpeed, st.CurrentPowerLimit,
                        GetPowerLimits.Min, GetPowerLimits.Max)

(* loop: the a.cfg.IsMonitorMode() test that selects the display-only      *)
(* branch                                                                  *)
IsMonitorMode_off == FALSE

IsMonitorMode == cfg.monitor

(* monitor mode: the targets are computed for display only                 *)
LoopMonitor ==
    /\ Running /\ loopPc = "regulate"
    /\ IsMonitorMode
    /\ \E targetFanSpeed \in {TargetFanSpeed(roundsDown) : roundsDown \in BOOLEAN} :
         st' = [st EXCEPT !.TargetFanSpeed = targetFanSpeed,
                          !.TargetPowerLimit = TargetPowerLimit]
    /\ loopPc' = "log"
    /\ UNCHANGED <<loopErr, tick, tgt, autoFanControl, initialized, issued, faults>>
    /\ UNCHANGED <<histVars, fanVars, powerVars, sigVars, constVars>>

(* handleFanControl, handlePowerLimit, setGPUState: the `err != nil` test   *)
(* after a facade write, which makes the tick return the wrapped error     *)
WriteFailed_swallowed(res) == FALSE

WriteFailed(res) == res # "ok"

(* handleFanControl: the low-temperature test that selects automatic fan   *)
(* control                                                                 *)
belowMinTemperature_strict(averageTemperature) == averageTemperature < minTemperature

belowMinTemperature(averageTemperature) == averageTemperature <= minTemperature

(* handleFanControl: a.autoFanControl on the manual branch, where a set    *)
(* flag is cleared                                                         *)
leaveAutoFanControl_sticky(flag) == flag

leaveAutoFanControl(flag) == IF flag THEN FALSE ELSE flag

(* setGPUState: both targets are computed, then handleFanControl runs      *)
LoopFanControl ==
    /\ Running /\ loopPc = "regulate"
    /\ ~IsMonitorMode
    /\ \E targetFanSpeed \in {TargetFanSpeed(roundsDown) : roundsDown \in BOOLEAN} :
         /\ tgt' = [fan |-> targetFanSpeed, power |-> TargetPowerLimit]
         /\ IF belowMinTemperature(st.AverageTemperature)
            THEN IF ~autoFanControl
                 THEN \E hwOk \in HwOutcomes :
                        /\ EnableAutoFanControl("tick", hwOk)
                        /\ IF ~WriteFailed(EnableAutoResult(hwOk))
                           THEN /\ autoFanControl' = TRUE
                                /\ loopPc' = "power"
                                /\ UNCHANGED loopErr
                           ELSE /\ loopPc' = "failed"
                                /\ loopErr' = "ErrSetGPUState"
                                /\ UNCHANGED autoFanControl
                 ELSE /\ loopPc' = "power"
                      /\ UNCHANGED <<autoFanControl, loopErr, issued, faults, fanVars>>
            ELSE /\ autoFanControl' = leaveAutoFanControl(autoFanControl)
                 /\ IF /\ ~leaveAutoFanControl(autoFanControl)
                       /\ ~applyHysteresis(targetFanSpeed, st.CurrentFanSpeed,
                                           cfgHysteresis)
                    THEN \E hwOk \in HwOutcomes :
                           /\ SetFanSpeed("tick", targetFanSpeed, hwOk)
                           /\ IF ~WriteFailed(SetFanSpeedResult(targetFanSpeed, hwOk))
                              THEN loopPc' = "power" /\ UNCHANGED loopErr
                              ELSE loopPc' = "failed" /\ loopErr' = "ErrSetGPUState"
                    ELSE /\ loopPc' = "power"
                         /\ UNCHANGED <<loopErr, issued, faults, fanVars>>
    /\ UNCHANGED <<tick, st, initialized>>
    /\ UNCHANGED <<histVars, powerVars, sigVars, constVars>>

(* setGPUState: handlePowerLimit with the target computed before the fan   *)
(* step                                                                    *)
LoopPowerLimit ==
    /\ Running /\ loopPc = "power"
    /\ LET w == PowerLimitWrite(cfg.performance, tgt.power,
                                st.CurrentPowerLimit, GetPowerLimits.Max)
           done == /\ loopPc' = "log"
                   /\ st' = [st EXCEPT !.TargetFanSpeed = tgt.fan,
                                       !.TargetPowerLimit = tgt.power]
                   /\ UNCHANGED loopErr
       IN  IF w # <<>>
           THEN \E hwOk \in HwOutcomes :
                  /\ SetPowerLimit("tick", w[1], hwOk)
                  /\ IF ~WriteFailed(SetPowerLimitResult(w[1], hwOk))
                     THEN done
                     ELSE /\ loopPc' = "failed"
                          /\ loopErr' = "ErrSetGPUState"
                          /\ UNCHANGED st
           ELSE /\ done
                /\ UNCHANGED <<issued, faults, powerVars>>
    /\ UNCHANGED <<tick, tgt, autoFanControl, initialized>>
    /\ UNCHANGED <<histVars, fanVars, sigVars, constVars>>

(* logGPUState: where the loop goes after metrics.Record returned: the     *)
(* error is logged and logGPUState returns nothing                         *)
AfterRecord_abort(res) == IF res = "ok" THEN "select" ELSE "failed"

AfterRecord(res) == "select"

(* service.Record: ErrOperationTimeout once ctx is done; otherwise the     *)
(* snapshot is buffered and a flush of the batch, when due, may fail       *)
(* (always possible once the database is closed)                           *)
RecordResults ==
    IF cancelled THEN {"ErrOperationTimeout"}
    ELSE IF metricsClosed > 0 \/ faults < MaxFaults THEN {"ok", "ErrMetricsCollection"}
    ELSE {"ok"}

(* logGPUState at level debug evaluates a.metrics.IsReadOnly() for its log *)
(* line, before and without the nil test that guards Record; newApplication *)
(* leaves a.metrics a nil interface when metrics are disabled              *)
NilCollectorCall(logLevel, metrics) == logLevel = "debug" /\ ~metrics

(* logGPUState: the snapshot is logged at level debug or info; the call of *)
(* a method on the nil collector panics.  With a metrics collector that is *)
(* not read-only (IsReadOnly may answer either way) the snapshot is        *)
(* recorded, and a failure of Record is logged; the tick is complete       *)
LoopLog ==
    /\ Running /\ loopPc = "log"
    /\ IF NilCollectorCall(cfg.logLevel, cfg.metrics)
       THEN /\ exit' = "panic"
            /\ UNCHANGED <<st, tgt, loopPc, loopErr, issued, faults>>
       ELSE /\ st' = ZeroState
            /\ tgt' = NoTarget
            /\ \/ /\ loopPc' = "select"
                  /\ UNCHANGED <<loopErr, issued, faults>>
               \/ /\ cfg.metrics
                  /\ \E res \in RecordResults :
                        /\ issued' = [issued EXCEPT !["record"] =
                                         <<[op |-> "Record", val |-> tick, res |-> res]>>]
                        /\ faults' = IF res = "ErrMetricsCollection" /\ metricsClosed = 0
                                     THEN faults + 1 ELSE faults
                        /\ loopPc' = AfterRecord(res)
                        /\ loopErr' = IF AfterRecord(res) = "failed"
                                      THEN "ErrCollectMetrics" ELSE loopErr
            /\ UNCHANGED exit
    /\ UNCHANGED <<tick, autoFanControl, initialized>>
    /\ UNCHANGED <<cancelled, sigPc, cleanupPc, metricsClosed>>
    /\ UNCHANGED <<histVars, fanVars, powerVars, constVars>>

(* run: loop returned an error; it is logged and cleanup is called on the  *)
(* main goroutine                                                          *)
LoopFailed ==
    /\ Running /\ loopPc = "failed"
    /\ loopPc' = "cleanup"
    /\ cleanupPc' = [cleanupPc EXCEPT !["main"] = "setPower"]
    /\ UNCHANGED <<loopErr, tick, st, tgt, autoFanControl, initialized, issued, faults,
                   cancelled, sigPc, exit, metricsClosed>>
    /\ UNCHANGED <<histVars, fanVars, powerVars, constVars>>

(* run: cleanup returned, run returns the error and main calls os.Exit(1)  *)
MainExit ==
    /\ Running /\ loopPc = "cleanup"
    /\ cleanupPc["main"] = "done"
    /\ loopPc' = "returned"
    /\ exit' = "main1"
    /\ UNCHANGED <<loopErr, tick, st, tgt, autoFanControl, initialized, issued, faults,
                   cancelled, sigPc, cleanupPc, metricsClosed>>
    /\ UNCHANGED <<histVars, fanVars, powerVars, constVars>>

----------------------------------------------------------------------------
(* The signal goroutine of run and AppState.cleanup.                       *)

CleanupSteps == {"setPower", "enableAuto", "shutdown", "closeMetrics"}

(* SIGINT/SIGTERM is delivered: cancel(), then cleanup is started on a     *)
(* goroutine of its own and the signal goroutine waits in its select       *)
SignalArrives ==
    /\ Running /\ sigPc = "waiting"
    /\ cancelled' = TRUE
    /\ sigPc' = "select"
    /\ cleanupPc' = [cleanupPc EXCEPT !["signal"] = "setPower"]
    /\ UNCHANGED <<exit, metricsClosed, initialized, issued, faults>>
    /\ UNCHANGED <<loopVars, histVars, fanVars, powerVars, constVars>>

(* select: case <-cleanupDone -> os.Exit(0)                                *)
SignalCleanupDone ==
    /\ Running /\ sigPc = "select"
    /\ cleanupPc["signal"] = "done"
    /\ sigPc' = "exited"
    /\ exit' = "graceful"
    /\ UNCHANGED <<cancelled, cleanupPc, metricsClosed, initialized, issued, faults>>
    /\ UNCHANGED <<loopVars, histVars, fanVars, powerVars, constVars>>

(* select: case <-time.After(cleanupTimeout) -> os.Exit(1)                 *)
SignalTimeout ==
    /\ Running /\ sigPc = "select"
    /\ sigPc' = "exited"
    /\ exit' = "forced"
    /\ UNCHANGED <<cancelled, cleanupPc, metricsClosed, initialized, issued, faults>>
    /\ UNCHANGED <<loopVars, histVars, fanVars, powerVars, constVars>>

(* cleanup: SetPowerLimit(min(Default, Max)) of GetPowerLimits(); an error *)
(* is logged                                                               *)
CleanupSetPower(w) ==
    /\ Running /\ cleanupPc[w] = "setPower"
    /\ \E hwOk \in HwOutcomes :
         SetPowerLimit(w, Min2(GetPowerLimits.Default, GetPowerLimits.Max), hwOk)
    /\ cleanupPc' = [cleanupPc EXCEPT ![w] = "enableAuto"]
    /\ UNCHANGED <<cancelled, sigPc, exit, metricsClosed, initialized>>
    /\ UNCHANGED <<loopVars, histVars, fanVars, constVars>>

(* cleanup: EnableAutoFanControl; an error is logged                       *)
CleanupEnableAuto(w) ==
    /\ Running /\ cleanupPc[w] = "enableAuto"
    /\ \E hwOk \in HwOutcomes : EnableAutoFanControl(w, hwOk)
    /\ cleanupPc' = [cleanupPc EXCEPT ![w] = "shutdown"]
    /\ UNCHANGED <<cancelled, sigPc, exit, metricsClosed, initialized>>
    /\ UNCHANGED <<loopVars, histVars, powerVars, constVars>>

(* cleanup: controller.Shutdown; a no-op when not initialized, and the     *)
(* controller stays initialized when nvml.Shutdown fails                   *)
CleanupShutdown(w) ==
    /\ Running /\ cleanupPc[w] = "shutdown"
    /\ \E hwOk \in HwOutcomes :
         LET res == IF ~initialized THEN "noop"
                    ELSE IF hwOk THEN "ok" ELSE "ErrShutdownFailed"
         IN  /\ initialized' = IF res = "ok" THEN FALSE ELSE initialized
             /\ faults' = IF res = "ErrShutdownFailed" THEN faults + 1 ELSE faults
             /\ Issue(w, "Shutdown", 0, res)
    /\ cleanupPc' = [cleanupPc EXCEPT ![w] = "closeMetrics"]
    /\ UNCHANGED <<cancelled, sigPc, exit, metricsClosed>>
    /\ UNCHANGED <<loopVars, histVars, fanVars, powerVars, constVars>>

(* cleanup: metrics.Close when a collector was constructed; an error is    *)
(* logged.  The collector is used through the MetricsCollector interface:  *)
(* its Close returns nil or an error, or panics (repository.Close of a     *)
(* repository without a flusher, see RepoSpec), which ends the process     *)
CleanupCloseMetrics(w) ==
    /\ Running /\ cleanupPc[w] = "closeMetrics"
    /\ IF cfg.metrics
       THEN /\ metricsClosed' = metricsClosed + 1
            /\ \/ /\ \E ok \in HwOutcomes :
                       /\ Issue(w, "Close", 0, IF ok THEN "ok" ELSE "ErrServiceShutdown")
                       /\ faults' = IF ok THEN faults ELSE faults + 1
                  /\ cleanupPc' = [cleanupPc EXCEPT ![w] = "done"]
                  /\ UNCHANGED exit
               \/ /\ Issue(w, "Close", 0, "panic")
                  /\ exit' = "panic"
                  /\ UNCHANGED <<cleanupPc, faults>>
       ELSE /\ cleanupPc' = [cleanupPc EXCEPT ![w] = "done"]
            /\ UNCHANGED <<metricsClosed, issued, faults, exit>>
    /\ UNCHANGED <<cancelled, sigPc, initialized>>
    /\ UNCHANGED <<loopVars, histVars, fanVars, powerVars, constVars>>

(* a call made by cleanup (a vendor-API call, the database close) never    *)
(* returns                                                                 *)
CleanupBlocks(w) ==
    /\ Running /\ cleanupPc[w] \in CleanupSteps
    /\ cleanupPc' = [cleanupPc EXCEPT ![w] = "blocked"]
    /\ UNCHANGED <<cancelled, sigPc, exit, metricsClosed, initialized, issued, faults>>
    /\ UNCHANGED <<loopVars, histVars, fanVars, powerVars, constVars>>

Cleanup ==
    \E w \in Execs :
        \/ CleanupSetPower(w)
        \/ CleanupEnableAuto(w)
        \/ CleanupShutdown(w)
        \/ CleanupCloseMetrics(w)
        \/ CleanupBlocks(w)

Next ==
    \/ LoopStart
    \/ LoopTick
    \/ LoopCancelled
    \/ LoopGetTemperature
    \/ LoopSample
    \/ LoopMonitor
    \/ LoopFanControl
    \/ LoopPowerLimit
    \/ LoopLog
    \/ LoopFailed
    \/ MainExit
    \/ SignalArrives
    \/ SignalCleanupDone
    \/ SignalTimeout
    \/ Cleanup
    \/ HistoryUpdateLate
    \/ LoopSampleBlocks

Spec == Init /\ [][Next]_vars

(* AppState.loop handed a configuration provider of any interval, also one *)
(* that config.validateConfig would have rejected                          *)
LoopConfigs == [monitor : BOOLEAN, performance : {FALSE}, metrics : {TRUE},
                interval : LoopIntervals, logLevel : {"info"}]

LoopInit == InitFor(LoopConfigs)

LoopSpec == LoopInit /\ [][Next]_vars

(* the process at every log level the configuration accepts                *)
LogLevels == {"debug", "info", "warning", "error"}

LogConfigs == [monitor : BOOLEAN, performance : {FALSE}, metrics : BOOLEAN,
               interval : Intervals, logLevel : LogLevels]

LogInit == InitFor(LogConfigs)

LogSpec == LogInit /\ [][Next]_vars

(* Scheduling: every goroutine that can take a step eventually does, and   *)
(* an armed timer eventually fires.  The delivery of a signal and the      *)
(* faults of the hardware are the environment's and are not forced.        *)
MainNext ==
    \/ LoopStart
    \/ LoopTick
    \/ LoopCancelled
    \/ LoopGetTemperature
    \/ LoopSample
    \/ LoopMonitor
    \/ LoopFanControl
    \/ LoopPowerLimit
    \/ LoopLog
    \/ LoopFailed
    \/ MainExit

SigNext == SignalCleanupDone \/ SignalTimeout

CleanupRun(w) ==
    \/ CleanupSetPower(w)
    \/ CleanupEnableAuto(w)
    \/ CleanupShutdown(w)
    \/ CleanupCloseMetrics(w)

FairSpec ==
    /\ Spec
    /\ WF_vars(MainNext)
    /\ WF_vars(SigNext)
    /\ \A w \in Execs : WF_vars(CleanupRun(w))

----------------------------------------------------------------------------
(* CalcSpec: the Power Regulator applied to drawn inputs.  calc holds one  *)
(* call of calculatePowerLimit; reg holds a device power limit driven by   *)
(* successive balanced-mode ticks (calculatePowerLimit, then the apply     *)
(* step of handlePowerLimit, then powerController.SetLimit).               *)

MainOff ==
    /\ cfg = [monitor |-> FALSE, performance |-> FALSE, metrics |-> FALSE,
              interval |-> 2, logLevel |-> "info"]
    /\ limits = [Min |-> PowerMin, Max |-> PowerMax, Default |-> PowerMax]
    /\ loopErr = "none"
    /\ loopPc = "off"
    /\ tick = 0
    /\ st = ZeroState
    /\ tgt = NoTarget
    /\ autoFanControl = FALSE
    /\ cancelled = FALSE
    /\ sigPc = "off"
    /\ cleanupPc = [w \in Execs |-> "idle"]
    /\ exit = "running"
    /\ initialized = TRUE
    /\ devFan = FanSpeedMin
    /\ devFanAuto = TRUE
    /\ speeds = FanSpeedMin
    /\ lastSpeeds = FanSpeedMin
    /\ autoMode = TRUE
    /\ devPower = PowerMax
    /\ currentLimit = PowerMax
    /\ lastLimit = PowerMax
    /\ tempHistory = <<>>
    /\ powerHistory = <<PowerMax>>
    /\ historyUpdate = NoUpdate
    /\ metricsClosed = 0
    /\ faults = 0
    /\ issued = [src \in Execs \cup {"tick", "record"} |-> <<>>]

CalcInputs ==
    [phase : {"in"}, currentTemperature : CalcTemps,
     targetTemperature : {cfgTemperature}, currentFanSpeed : CalcFans,
     maxFanSpeed : CalcMaxFans, currentPowerLimit : CalcLimits,
     adjustment : {0}, opposite : {0}, result : {0}]

RegStarts ==
    {[phase |-> "run", limit |-> l, before |-> l, before2 |-> l,
      kind |-> "none", prevKind |-> "none"] : l \in PowerMin..PowerMax}

CalcInit ==
    /\ MainOff
    /\ fcalc = NoFan
    /\ win = NoWindow
    /\ sch = NoSchema
    /\ repo = NoRepo
    /\ ctl = NoController
    /\ pidf = NoPid
    /\ \/ calc \in CalcInputs /\ reg = NoReg
       \/ calc = NoCalc /\ reg \in RegStarts

TempDiff == calc.currentTemperature - calc.targetTemperature

Saturated == calc.currentFanSpeed >= calc.maxFanSpeed

(* one call of calculatePowerLimit; opposite is the adjustment of the call *)
(* with the temperature error negated and the fan at its configured max    *)
CalcApply ==
    /\ calc.phase = "in"
    /\ calc' = [calc EXCEPT
            !.phase = "out",
            !.adjustment = Adjustment(calc.currentTemperature, calc.targetTemperature,
                                      calc.currentFanSpeed, calc.maxFanSpeed),
            !.opposite = Adjustment(calc.targetTemperature - TempDiff,
                                    calc.targetTemperature,
                                    calc.maxFanSpeed, calc.maxFanSpeed),
            !.result = calculatePowerLimit(calc.currentTemperature,
                            calc.targetTemperature, calc.currentFanSpeed,
                            calc.maxFanSpeed, calc.currentPowerLimit,
                            GetPowerLimits.Min, GetPowerLimits.Max)]
    /\ UNCHANGED <<reg, fcalc, win, sch, repo, ctl, pidf, mainVars>>

(* what a tick is to the regulator                                         *)
TickKind(temp, fan) ==
    IF temp > cfgTemperature /\ fan >= cfgFanSpeed THEN "reduce"
    ELSE IF temp < cfgTemperature THEN "restore"
    ELSE "hold"

(* one balanced-mode tick of the power regulator on the limit the device   *)
(* enforces                                                                *)
RegTick ==
    /\ reg.phase = "run"
    /\ \E temp \in CalcTemps, fan \in CalcFans :
         LET target == calculatePowerLimit(temp, cfgTemperature, fan, cfgFanSpeed,
                                           reg.limit, GetPowerLimits.Min,
                                           GetPowerLimits.Max)
             w == PowerLimitWrite(FALSE, target, reg.limit, GetPowerLimits.Max)
             applied == IF w # <<>> /\ SetPowerLimitResult(w[1], TRUE) = "ok"
                        THEN w[1] ELSE reg.limit
         IN  reg' = [phase |-> "run", limit |-> applied, before |-> reg.limit,
                     before2 |-> reg.before, kind |-> TickKind(temp, fan),
                     prevKind |-> reg.kind]
    /\ UNCHANGED <<calc, fcalc, win, sch, repo, ctl, pidf, mainVars>>

CalcNext == CalcApply \/ RegTick

CalcSpec == CalcInit /\ [][CalcNext]_vars

----------------------------------------------------------------------------
(* RegimeSpec: balanced-mode ticks of the power regulator while the        *)
(* temperature stays on one side of the target: below it, or above it with *)
(* the fan at or above the configured max.  turn alternates with the       *)
(* ticks, so that a tick that writes nothing is a step all the same.       *)

RegimeStarts ==
    [phase : {"regime"}, side : {"below", "above"}, limit : PowerMin..PowerMax,
     temp : {cfgTemperature}, turn : {0}]

RegimeInit ==
    /\ MainOff
    /\ calc = NoCalc
    /\ fcalc = NoFan
    /\ win = NoWindow
    /\ sch = NoSchema
    /\ repo = NoRepo
    /\ ctl = NoController
    /\ pidf = NoPid
    /\ reg \in RegimeStarts

RegimeTemps(side) ==
    IF side = "below" THEN {t \in CalcTemps : t < cfgTemperature}
    ELSE {t \in CalcTemps : t > cfgTemperature}

RegimeFans(side) ==
    IF side = "below" THEN CalcFans ELSE {f \in CalcFans : f >= cfgFanSpeed}

(* one tick: setGPUState's calculatePowerLimit, then handlePowerLimit on   *)
(* the limit the device enforces                                           *)
RegimeTick ==
    /\ reg.phase = "regime"
    /\ \E temp \in RegimeTemps(reg.side), fan \in RegimeFans(reg.side) :
         LET target == calculatePowerLimit(temp, cfgTemperature, fan, cfgFanSpeed,
                                           reg.limit, GetPowerLimits.Min,
                                           GetPowerLimits.Max)
             w == PowerLimitWrite(FALSE, target, reg.limit, GetPowerLimits.Max)
             applied == IF w # <<>> /\ SetPowerLimitResult(w[1], TRUE) = "ok"
                        THEN w[1] ELSE reg.limit
         IN  reg' = [reg EXCEPT !.limit = applied, !.temp = temp, !.turn = 1 - @]
    /\ UNCHANGED <<calc, fcalc, win, sch, repo, ctl, pidf, mainVars>>

RegimeNext == RegimeTick

(* the ticker keeps firing                                                 *)
RegimeSpec == RegimeInit /\ [][RegimeNext]_vars /\ WF_vars(RegimeTick)

----------------------------------------------------------------------------
(* FanSpec: the Fan Regulator applied to drawn inputs.  fcalc holds the    *)
(* inputs of a call of calculateFanSpeed, its result, and the result of    *)
(* the call for the temperature one degree higher.                         *)

FanInputs ==
    {[phase |-> "in", averageTemperature |-> t, maxTemperature |-> mt,
      configMaxFanSpeed |-> c, limMin |-> l.Min, limMax |-> l.Max,
      performance |-> pf, result |-> 0, next |-> 0] :
        t \in FanTemps, mt \in FanMaxTemperatures, c \in FanCaps,
        l \in FanLimits, pf \in BOOLEAN}

FanInit ==
    /\ MainOff
    /\ calc = NoCalc
    /\ reg = NoReg
    /\ fcalc \in FanInputs
    /\ win = NoWindow
    /\ sch = NoSchema
    /\ repo = NoRepo
    /\ ctl = NoController
    /\ pidf = NoPid

FanApply ==
    /\ fcalc.phase = "in"
    /\ \E roundsDown \in BOOLEAN, roundsDownNext \in BOOLEAN :
         fcalc' = [fcalc EXCEPT
            !.phase = "out",
            !.result = calculateFanSpeed(fcalc.averageTemperature,
                            fcalc.maxTemperature, fcalc.configMaxFanSpeed,
                            fcalc.limMin, fcalc.limMax, fcalc.performance,
                            roundsDown),
            !.next = calculateFanSpeed(fcalc.averageTemperature + 1,
                            fcalc.maxTemperature, fcalc.configMaxFanSpeed,
                            fcalc.limMin, fcalc.limMax, fcalc.performance,
                            roundsDownNext)]
    /\ UNCHANGED <<calc, reg, win, sch, repo, ctl, pidf, mainVars>>

FanNext == FanApply

FanSpec == FanInit /\ [][FanNext]_vars

----------------------------------------------------------------------------
(* WindowSpec: the Moving Average Filter applied to drawn samples.  The    *)
(* temperature window of newController starts empty; the power-limit       *)
(* window of newPowerController starts with the limit read at              *)
(* construction.                                                           *)

WindowSize(kind) ==
    IF kind = "temperature" THEN temperatureWindowSize ELSE powerLimitWindowSize

WinInit ==
    /\ MainOff
    /\ calc = NoCalc
    /\ reg = NoReg
    /\ fcalc = NoFan
    /\ sch = NoSchema
    /\ repo = NoRepo
    /\ ctl = NoController
    /\ pidf = NoPid
    /\ \/ win = [kind |-> "temperature", history |-> <<>>, arrived |-> <<>>, avg |-> 0]
       \/ \E first \in WinSamples :
             win = [kind |-> "power", history |-> <<first>>, arrived |-> <<first>>,
                    avg |-> 0]

(* controller.UpdateTemperatureHistory / powerController.UpdateHistory     *)
UpdateHistory ==
    /\ Len(win.arrived) < MaxSamples
    /\ \E sample \in WinSamples :
         LET h == Push(win.history, sample, WindowSize(win.kind))
         IN  win' = [win EXCEPT !.history = h,
                                !.arrived = Append(@, sample),
                                !.avg = Average(h)]
    /\ UNCHANGED <<calc, reg, fcalc, sch, repo, ctl, pidf, mainVars>>

WinNext == UpdateHistory

WindowSpec == WinInit /\ [][WinNext]_vars

----------------------------------------------------------------------------
(* SchemaSpec: ValidateAndUpdateSchema on a metrics database left by an    *)
(* earlier run.  stored is the highest row of schema_versions (0: no such  *)
(* table or no row), rows counts the metrics rows.  InitSchema and         *)
(* dropTables each run in one transaction, so the two tables appear and    *)
(* disappear together.  Every database call may fail.                      *)

EmptyDatabase == [stored |-> 0, tables |-> FALSE, rows |-> 0]

Databases ==
    {EmptyDatabase} \cup [stored : 1..MaxVersion, tables : {TRUE}, rows : 0..MaxRows]

SchInit ==
    /\ MainOff
    /\ calc = NoCalc
    /\ reg = NoReg
    /\ fcalc = NoFan
    /\ win = NoWindow
    /\ repo = NoRepo
    /\ ctl = NoController
    /\ pidf = NoPid
    /\ \E d \in Databases :
         sch = [pc |-> "version", db |-> d, version |-> 0, backups |-> {},
                result |-> "none", runs |-> 1]

SchReturn(err) == [sch EXCEPT !.pc = "done", !.result = err]

(* migration.go:77 and :79                                                 *)
NeedsRecreate(version) == version = 0 \/ version # SchemaVersion
NeedsBackup(version) == version # 0

AfterBackup_ignored(ok) == "drop"

(* migration.go:80-92: a failed backup returns before dropTables           *)
AfterBackup(ok) == IF ok THEN "drop" ELSE "done"

(* GetSchemaVersion and the branch on its result                           *)
SchGetVersion ==
    /\ sch.pc = "version"
    /\ \/ sch' = SchReturn("ErrSchemaValidationFailed")
       \/ LET version == sch.db.stored
          IN  sch' = [sch EXCEPT
                        !.version = version,
                        !.pc = IF ~NeedsRecreate(version) THEN "done"
                               ELSE IF NeedsBackup(version) THEN "backup"
                               ELSE "drop",
                        !.result = IF ~NeedsRecreate(version) THEN "ok" ELSE @]
    /\ UNCHANGED <<calc, reg, fcalc, win, repo, ctl, pidf, mainVars>>

(* backupDatabase: MkdirAll, then VACUUM INTO a file named by the version  *)
SchBackup ==
    /\ sch.pc = "backup"
    /\ \E ok \in BOOLEAN :
         sch' = [sch EXCEPT
                   !.backups = IF ok THEN @ \cup {[version |-> sch.version,
                                                    rows |-> sch.db.rows]}
                               ELSE @,
                   !.pc = AfterBackup(ok),
                   !.result = IF AfterBackup(ok) = "done"
                              THEN "ErrSchemaMigrationFailed" ELSE @]
    /\ UNCHANGED <<calc, reg, fcalc, win, repo, ctl, pidf, mainVars>>

(* dropTables: both tables dropped in one transaction, rolled back on error *)
SchDropTables ==
    /\ sch.pc = "drop"
    /\ \/ sch' = SchReturn("ErrSchemaMigrationFailed")
       \/ sch' = [sch EXCEPT !.db = EmptyDatabase, !.pc = "init"]
    /\ UNCHANGED <<calc, reg, fcalc, win, repo, ctl, pidf, mainVars>>

(* InitSchema: tables created and the version row inserted in one          *)
(* transaction                                                             *)
SchInitSchema ==
    /\ sch.pc = "init"
    /\ \/ sch' = SchReturn("ErrSchemaInitFailed")
       \/ sch' = [sch EXCEPT
                    !.db = [stored |-> SchemaVersion, tables |-> TRUE, rows |-> 0],
                    !.pc = "done",
                    !.result = "ok"]
    /\ UNCHANGED <<calc, reg, fcalc, win, repo, ctl, pidf, mainVars>>

(* repository.flush: the run that validated the schema inserts a row       *)
SchFlush ==
    /\ sch.pc = "done"
    /\ sch.result = "ok"
    /\ sch.db.rows < MaxRows
    /\ sch' = [sch EXCEPT !.db.rows = @ + 1]
    /\ UNCHANGED <<calc, reg, fcalc, win, repo, ctl, pidf, mainVars>>

(* the next start of the program opens the same database                   *)
SchRestart ==
    /\ sch.pc = "done"
    /\ sch.runs < MaxRuns
    /\ sch' = [sch EXCEPT !.pc = "version", !.version = 0, !.result = "none",
                          !.runs = @ + 1]
    /\ UNCHANGED <<calc, reg, fcalc, win, repo, ctl, pidf, mainVars>>

SchNext ==
    \/ SchGetVersion
    \/ SchBackup
    \/ SchDropTables
    \/ SchInitSchema
    \/ SchFlush
    \/ SchRestart

SchemaSpec == SchInit /\ [][SchNext]_vars

----------------------------------------------------------------------------
(* RepoSpec: the metrics repository of internal/metrics/repository.go with *)
(* its flusher goroutine.  Snapshots are numbered in the order of their    *)
(* Record calls; committed is what the database holds.  Record and the     *)
(* flusher's flushes run under r.mu, so each is one step.  Every database  *)
(* call may fail.                                                          *)

BatchSizes == {0, 2}
BatchTimeouts == {0, 5}

(* NewRepository: the flusher is started only when batching is configured  *)
RepoStarts ==
    {[pc |-> "open", BatchSize |-> bs, BatchTimeout |-> bt,
      buffer |-> <<>>, committed |-> <<>>, next |-> 1, returned |-> {},
      flusher |-> IF bs > 0 /\ bt > 0 THEN "running" ELSE "none",
      close |-> "idle", lastFlush |-> "none", dbFailed |-> FALSE] :
        bs \in BatchSizes, bt \in BatchTimeouts}

RepoInit ==
    /\ MainOff
    /\ calc = NoCalc
    /\ reg = NoReg
    /\ fcalc = NoFan
    /\ win = NoWindow
    /\ sch = NoSchema
    /\ repo \in RepoStarts
    /\ ctl = NoController
    /\ pidf = NoPid

flush_keepsBuffer(buffer, committed, dbOk) ==
    IF buffer = <<>> THEN [buffer |-> buffer, committed |-> committed, res |-> "none"]
    ELSE IF dbOk THEN [buffer |-> buffer, committed |-> committed \o buffer, res |-> "ok"]
    ELSE [buffer |-> buffer, committed |-> committed, res |-> "failed"]

(* repository.flush: nothing to do on an empty buffer; otherwise one       *)
(* transaction inserts every buffered snapshot and the buffer is emptied   *)
(* after the commit; on any error the transaction is rolled back and the   *)
(* buffer is kept                                                          *)
flush(buffer, committed, dbOk) ==
    IF buffer = <<>> THEN [buffer |-> buffer, committed |-> committed, res |-> "none"]
    ELSE IF dbOk THEN [buffer |-> <<>>, committed |-> committed \o buffer, res |-> "ok"]
    ELSE [buffer |-> buffer, committed |-> committed, res |-> "failed"]

(* the database still accepts transactions: Close has not closed it        *)
DbOutcomes == IF repo.close = "ok" THEN {FALSE} ELSE BOOLEAN

RepoLive == repo.pc = "open" /\ repo.close # "panic"

AfterFlush(f) ==
    [repo EXCEPT !.buffer = f.buffer, !.committed = f.committed,
                 !.lastFlush = f.res, !.dbFailed = @ \/ f.res = "failed"]

(* repository.Record: append, and flush when the batch is full             *)
RepoRecord ==
    /\ RepoLive
    /\ repo.next <= MaxSnapshots
    /\ \E dbOk \in DbOutcomes :
         LET buffer == Append(repo.buffer, repo.next)
             f == IF Len(buffer) >= repo.BatchSize
                  THEN flush(buffer, repo.committed, dbOk)
                  ELSE [buffer |-> buffer, committed |-> repo.committed, res |-> "none"]
         IN  repo' = [AfterFlush(f) EXCEPT
                        !.next = @ + 1,
                        !.returned = IF repo.close = "idle" THEN @ \cup {repo.next}
                                     ELSE @]
    /\ UNCHANGED <<calc, reg, fcalc, win, sch, ctl, pidf, mainVars>>

(* flusher: case <-r.flushTicker.C                                         *)
RepoFlusherTick ==
    /\ RepoLive
    /\ repo.flusher = "running"
    /\ repo.buffer # <<>>
    /\ \E dbOk \in DbOutcomes :
         repo' = AfterFlush(flush(repo.buffer, repo.committed, dbOk))
    /\ UNCHANGED <<calc, reg, fcalc, win, sch, ctl, pidf, mainVars>>

(* flusher: case <-r.shutdownChan: the final flush, then flushDoneChan is  *)
(* closed                                                                  *)
RepoFlusherShutdown ==
    /\ RepoLive
    /\ repo.flusher = "running"
    /\ repo.close # "idle"
    /\ \E dbOk \in DbOutcomes :
         repo' = [AfterFlush(flush(repo.buffer, repo.committed, dbOk)) EXCEPT
                    !.flusher = "done"]
    /\ UNCHANGED <<calc, reg, fcalc, win, sch, ctl, pidf, mainVars>>

(* Close: close(r.shutdownChan)                                            *)
RepoCloseCall ==
    /\ RepoLive
    /\ repo.close = "idle"
    /\ repo' = [repo EXCEPT !.close = "stopTicker", !.lastFlush = "none"]
    /\ UNCHANGED <<calc, reg, fcalc, win, sch, ctl, pidf, mainVars>>

(* Close: r.flushTicker.Stop(); flushTicker is nil when the flusher was    *)
(* not started, and Stop on a nil *time.Ticker panics                      *)
RepoCloseStopTicker ==
    /\ RepoLive
    /\ repo.close = "stopTicker"
    /\ repo' = [repo EXCEPT !.close = IF repo.flusher = "none" THEN "panic" ELSE "wait",
                            !.lastFlush = "none"]
    /\ UNCHANGED <<calc, reg, fcalc, win, sch, ctl, pidf, mainVars>>

(* Close: <-r.flushDoneChan                                                *)
RepoCloseWait ==
    /\ RepoLive
    /\ repo.close = "wait"
    /\ repo.flusher = "done"
    /\ repo' = [repo EXCEPT !.close = "checkpoint", !.lastFlush = "none"]
    /\ UNCHANGED <<calc, reg, fcalc, win, sch, ctl, pidf, mainVars>>

(* Close: the WAL checkpoint and db.Close; either may fail                 *)
RepoCloseFinish ==
    /\ RepoLive
    /\ repo.close = "checkpoint"
    /\ \E dbOk \in BOOLEAN :
         repo' = [repo EXCEPT !.close = IF dbOk THEN "ok" ELSE "ErrStorageClose",
                             !.dbFailed = @ \/ ~dbOk,
                             !.lastFlush = "none"]
    /\ UNCHANGED <<calc, reg, fcalc, win, sch, ctl, pidf, mainVars>>

RepoNext ==
    \/ RepoRecord
    \/ RepoFlusherTick
    \/ RepoFlusherShutdown
    \/ RepoCloseCall
    \/ RepoCloseStopTicker
    \/ RepoCloseWait
    \/ RepoCloseFinish

RepoSpec == RepoInit /\ [][RepoNext]_vars

----------------------------------------------------------------------------
(* ControllerSpec: the life cycle of gpu.controller under any sequence of  *)
(* calls.  fanController and powerController tell whether the field is     *)
(* non-nil, nvml whether the library is initialized; last records the      *)
(* latest call: its result, whether the controller was initialized when it *)
(* was made, and whether it reached the device or the library.             *)

Commands == {"GetTemperature", "SetFanSpeed", "SetPowerLimit", "EnableAutoFanControl"}

NoCall == [op |-> "none", res |-> "nil", was |-> FALSE, touched |-> FALSE]

(* gpu.New                                                                 *)
CtlInit ==
    /\ MainOff
    /\ calc = NoCalc
    /\ reg = NoReg
    /\ fcalc = NoFan
    /\ win = NoWindow
    /\ sch = NoSchema
    /\ repo = NoRepo
    /\ pidf = NoPid
    /\ ctl = [pc |-> "on", initialized |-> FALSE, fanController |-> FALSE,
              powerController |-> FALSE, nvml |-> FALSE, calls |-> 0, last |-> NoCall]

Called(op, res, touched) ==
    [op |-> op, res |-> res, was |-> ctl.initialized, touched |-> touched]

(* the stage at which Initialize fails, "none" when it succeeds            *)
InitializeStages == {"nvml", "device", "fanController", "powerController", "none"}

InitializeError(failsAt) ==
    CASE failsAt = "nvml" -> "ErrInitFailed"
      [] failsAt = "device" -> "ErrDeviceNotFound"
      [] failsAt = "fanController" -> "ErrInitFailed"
      [] failsAt = "powerController" -> "ErrInitFailed"
      [] OTHER -> "nil"

(* controller.Initialize: each field is assigned as its stage succeeds and *)
(* nothing is undone when a later stage fails                              *)
CtlInitialize ==
    /\ ctl.pc = "on" /\ ctl.calls < MaxCalls
    /\ IF ctl.initialized
       THEN ctl' = [ctl EXCEPT !.calls = @ + 1,
                               !.last = Called("Initialize", "nil", FALSE)]
       ELSE \E failsAt \in InitializeStages :
              ctl' = [ctl EXCEPT
                        !.calls = @ + 1,
                        !.nvml = @ \/ failsAt # "nvml",
                        !.fanController =
                            @ \/ failsAt \in {"powerController", "none"},
                        !.powerController = @ \/ failsAt = "none",
                        !.initialized = failsAt = "none",
                        !.last = Called("Initialize", InitializeError(failsAt), TRUE)]
    /\ UNCHANGED <<calc, reg, fcalc, win, sch, repo, pidf, mainVars>>

(* controller.Shutdown                                                     *)
CtlShutdown ==
    /\ ctl.pc = "on" /\ ctl.calls < MaxCalls
    /\ IF ~ctl.initialized
       THEN ctl' = [ctl EXCEPT !.calls = @ + 1,
                               !.last = Called("Shutdown", "nil", FALSE)]
       ELSE \E hwOk \in BOOLEAN :
              ctl' = IF hwOk
                     THEN [ctl EXCEPT !.calls = @ + 1,
                                      !.nvml = FALSE,
                                      !.fanController = FALSE,
                                      !.powerController = FALSE,
                                      !.initialized = FALSE,
                                      !.last = Called("Shutdown", "nil", TRUE)]
                     ELSE [ctl EXCEPT !.calls = @ + 1,
                                      !.last = Called("Shutdown", "ErrShutdownFailed",
                                                      TRUE)]
    /\ UNCHANGED <<calc, reg, fcalc, win, sch, repo, pidf, mainVars>>

(* the test each command makes before it reaches the device                *)
Refused(op) ==
    CASE op = "GetTemperature" -> ~ctl.initialized
      [] op = "SetFanSpeed" -> ~ctl.fanController
      [] op = "SetPowerLimit" -> ~ctl.powerController
      [] op = "EnableAutoFanControl" -> ~ctl.initialized

(* GetTemperature, SetFanSpeed, SetPowerLimit, EnableAutoFanControl with   *)
(* an argument the hardware limits allow                                   *)
CtlCommand ==
    /\ ctl.pc = "on" /\ ctl.calls < MaxCalls
    /\ \E op \in Commands :
         IF Refused(op)
         THEN ctl' = [ctl EXCEPT !.calls = @ + 1,
                                 !.last = Called(op, "ErrNotInitialized", FALSE)]
         ELSE \E hwOk \in BOOLEAN :
                ctl' = [ctl EXCEPT !.calls = @ + 1,
                                   !.last = Called(op, IF hwOk THEN "nil" ELSE "failed",
                                                   TRUE)]
    /\ UNCHANGED <<calc, reg, fcalc, win, sch, repo, pidf, mainVars>>

CtlNext ==
    \/ CtlInitialize
    \/ CtlShutdown
    \/ CtlCommand

ControllerSpec == CtlInit /\ [][CtlNext]_vars

----------------------------------------------------------------------------
(* PidSpec: instances of the program started on one machine.  file is the  *)
(* PID recorded in the PID file, 0 when the file does not exist; at[p] is  *)
(* the position of instance p in pid.Write and run.  One file-system call  *)
(* per step.                                                               *)

Procs == 1..MaxProcs

PidInit ==
    /\ MainOff
    /\ calc = NoCalc
    /\ reg = NoReg
    /\ fcalc = NoFan
    /\ win = NoWindow
    /\ sch = NoSchema
    /\ repo = NoRepo
    /\ ctl = NoController
    /\ pidf = [pc |-> "on", file |-> 0, at |-> [p \in Procs |-> "stat"]]

(* the process exists: Signal(0) to it succeeds                            *)
Alive(p) == pidf.at[p] \notin {"refused", "exited"}

(* pid.Write: os.Stat(path)                                                *)
PidStat(p) ==
    /\ pidf.pc = "on" /\ pidf.at[p] = "stat"
    /\ pidf' = [pidf EXCEPT !.at[p] = IF pidf.file # 0 THEN "check" ELSE "write"]
    /\ UNCHANGED <<calc, reg, fcalc, win, sch, repo, ctl, mainVars>>

(* pid.Write: ReadFile, Atoi, FindProcess and Signal(0); ErrInternal when  *)
(* the file has been removed since the Stat, ErrAlreadyRunning when the    *)
(* recorded process exists                                                 *)
PidCheck(p) ==
    /\ pidf.pc = "on" /\ pidf.at[p] = "check"
    /\ pidf' = [pidf EXCEPT !.at[p] = IF pidf.file = 0 \/ Alive(pidf.file)
                                      THEN "refused" ELSE "write"]
    /\ UNCHANGED <<calc, reg, fcalc, win, sch, repo, ctl, mainVars>>

(* pid.Write: os.WriteFile(path, pid); run goes on to control the GPU      *)
PidWrite(p) ==
    /\ pidf.pc = "on" /\ pidf.at[p] = "write"
    /\ pidf' = [pidf EXCEPT !.file = p, !.at[p] = "running"]
    /\ UNCHANGED <<calc, reg, fcalc, win, sch, repo, ctl, mainVars>>

(* the instance ends: run returns and its deferred pid.Remove removes the  *)
(* file whatever PID it holds, or the signal goroutine calls os.Exit and   *)
(* the file stays                                                          *)
PidExit(p) ==
    /\ pidf.pc = "on" /\ pidf.at[p] = "running"
    /\ \E removes \in BOOLEAN :
         pidf' = [pidf EXCEPT !.file = IF removes THEN 0 ELSE @, !.at[p] = "exited"]
    /\ UNCHANGED <<calc, reg, fcalc, win, sch, repo, ctl, mainVars>>

PidNext ==
    \E p \in Procs :
        \/ PidStat(p)
        \/ PidCheck(p)
        \/ PidWrite(p)
        \/ PidExit(p)

PidSpec == PidInit /\ [][PidNext]_vars

----------------------------------------------------------------------------
(* Properties.                                                             *)

(* the values of the calls of one kind in a command sequence               *)
Writes(s, op) ==
    LET sel == SelectSeq(s, LAMBDA c : c.op = op)
    IN  [i \in 1..Len(sel) |-> sel[i].val]

Ops(s) == [i \in 1..Len(s) |-> s[i].op]

IsPrefix(s, t) == Len(s) <= Len(t) /\ \A i \in 1..Len(s) : s[i] = t[i]

(* C1: a signal that arrives during a tick lets the tick finish first: the *)
(* shutdown sequence started by the signal issues no device command while  *)
(* a tick is in progress, and a tick issues no fan-speed or power-limit    *)
(* write once that shutdown sequence has issued one.                       *)
C1_TickCompletesBeforeShutdown ==
    [][ /\ Len(issued'["signal"]) > Len(issued["signal"]) => loopPc \notin TickPcs
        /\ ( /\ Len(issued'["tick"]) > Len(issued["tick"])
             /\ issued'["tick"][Len(issued'["tick"])].op \in {"SetFanSpeed", "SetPowerLimit"} )
           => issued["signal"] = <<>>
      ]_vars

(* C2: a failed or timed-out read of temperature, fan speed or power limit *)
(* never ends the loop: loop never returns the sampling error.             *)
C2_SamplingFailureNonFatal == loopErr # "ErrGetGPUState"

(* C3: a started shutdown sequence always leads to the exit of the         *)
(* process, also when one of its steps never returns.                      *)
C3_ShutdownBounded ==
    \A w \in Execs : (cleanupPc[w] # "idle") ~> (exit # "running")

(* C4: every execution of the shutdown sequence issues SetPowerLimit of    *)
(* min(hardware default, hardware max), then EnableAutoFanControl, then    *)
(* (after the controller shutdown) the close of the metrics collaborator.  *)
C4_ShutdownSequenceOrder ==
    \A w \in Execs :
        /\ IsPrefix(Ops(issued[w]),
                    <<"SetPowerLimit", "EnableAutoFanControl", "Shutdown", "Close">>)
        /\ Writes(issued[w], "SetPowerLimit") \in
                {<<>>, <<Min2(limits.Default, limits.Max)>>}
        /\ (cleanupPc[w] = "done" /\ cfg.metrics) => Len(issued[w]) = 4

(* C5: the target computed by calculatePowerLimit lies within the hardware *)
(* power limits for every input.                                           *)
C5_TargetWithinLimits ==
    calc.phase = "out" => calc.result \in PowerMin..PowerMax

FanStepDone ==
    /\ ~cfg.monitor
    /\ \/ loopPc \in {"power", "log"}
       \/ loopPc = "failed" /\ loopErr = "ErrSetGPUState"

PowerStepDone ==
    /\ ~cfg.monitor
    /\ \/ loopPc = "log"
       \/ /\ loopPc = "failed" /\ issued["tick"] # <<>>
          /\ issued["tick"][Len(issued["tick"])].op = "SetPowerLimit"

(* C7: in balanced mode the power step issues SetPowerLimit(target)        *)
(* exactly when |target - current power limit| exceeds the power           *)
(* hysteresis of 5 W, and issues no power write otherwise.                 *)
C7_PowerApplyGate ==
    (PowerStepDone /\ ~cfg.performance) =>
        Writes(issued["tick"], "SetPowerLimit") =
            IF abs(tgt.power - st.CurrentPowerLimit) > powerLimitHysteresis
            THEN <<tgt.power>> ELSE <<>>

C7_Witness ==
    /\ PowerStepDone /\ ~cfg.performance
    /\ loopPc = "log"
    /\ Writes(issued["tick"], "SetPowerLimit") = <<tgt.power>>
    /\ devPower = tgt.power

(* C8: after a reducing tick (temperature above target, fan saturated)     *)
(* followed by a restoring tick (temperature below target) the limit the   *)
(* device enforces is at least what it was before the two ticks.           *)
C8_AntiRatchet ==
    (reg.phase = "run" /\ reg.prevKind = "reduce" /\ reg.kind = "restore") =>
        reg.limit >= reg.before2

C8_Witness ==
    /\ reg.phase = "run" /\ reg.prevKind = "reduce" /\ reg.kind = "restore"
    /\ reg.before < reg.before2
    /\ reg.limit = reg.before2

InRange == calc.currentPowerLimit \in PowerMin..PowerMax

(* C10 as stated: the target is below the current limit only when the      *)
(* temperature is above target with the fan at or above its configured     *)
(* max, the reduction then being min(tempDiff * wattsPerDegree,            *)
(* maxPowerLimitChange); the target equals the current limit when tempDiff *)
(* is 0 or the fan is below its max.                                       *)
C10_ReductionExact ==
    (calc.phase = "out" /\ InRange) =>
        /\ calc.result < calc.currentPowerLimit =>
              /\ TempDiff > 0 /\ Saturated
              /\ calc.currentPowerLimit - calc.result =
                    Min2(TempDiff * wattsPerDegree, maxPowerLimitChange)
        /\ (TempDiff = 0 \/ (TempDiff > 0 /\ ~Saturated)) =>
              calc.result = calc.currentPowerLimit

(* C10 amended: for a current limit within the hardware limits the target  *)
(* is below the current limit only when the temperature is above target    *)
(* with the fan at or above its configured max, and it is then the current *)
(* limit less min(tempDiff * wattsPerDegree, maxPowerLimitChange), raised  *)
(* to the hardware minimum; the target equals the current limit when       *)
(* tempDiff is 0 or the fan is below its max.                              *)
C10_ReductionClamped ==
    (calc.phase = "out" /\ InRange) =>
        /\ calc.result < calc.currentPowerLimit =>
              /\ TempDiff > 0 /\ Saturated
              /\ calc.result =
                    clamp(calc.currentPowerLimit
                            - Min2(TempDiff * wattsPerDegree, maxPowerLimitChange),
                          PowerMin, PowerMax)
        /\ (TempDiff = 0 \/ (TempDiff > 0 /\ ~Saturated)) =>
              calc.result = calc.currentPowerLimit

C10_Witness ==
    /\ calc.phase = "out" /\ InRange
    /\ TempDiff > 0 /\ Saturated
    /\ calc.result = PowerMin
    /\ calc.result < calc.currentPowerLimit
    /\ calc.currentPowerLimit - calc.result <
            Min2(TempDiff * wattsPerDegree, maxPowerLimitChange)

(* C11: in performance mode a completed non-monitor tick whose current     *)
(* power limit was below hardware max has written exactly hardware max and *)
(* carries hardware max as its target power limit, and no tick writes any  *)
(* other power-limit value.                                                *)
C11_PerformancePinsMax ==
    (~cfg.monitor /\ cfg.performance /\ loopPc = "log") =>
        /\ Writes(issued["tick"], "SetPowerLimit") \in {<<>>, <<limits.Max>>}
        /\ st.CurrentPowerLimit < limits.Max =>
              /\ Writes(issued["tick"], "SetPowerLimit") = <<limits.Max>>
              /\ st.TargetPowerLimit = limits.Max

(* C12: in a non-monitor tick whose smoothed temperature is at or below    *)
(* minTemperature the fan step selects automatic fan control and the tick  *)
(* issues no SetFanSpeed.                                                  *)
C12_AutoAtLowTemperature ==
    (~cfg.monitor /\ loopPc \in {"power", "log", "failed"}
        /\ st.AverageTemperature <= minTemperature /\ st.CurrentTemperature > 0) =>
        /\ Writes(issued["tick"], "SetFanSpeed") = <<>>
        /\ loopPc \in {"power", "log"} => autoFanControl

C12_Witness ==
    /\ ~cfg.monitor /\ loopPc = "power"
    /\ st.AverageTemperature = minTemperature
    /\ autoFanControl /\ autoMode
    /\ Ops(issued["tick"]) = <<"EnableAutoFanControl">>

(* C13: after every non-monitor tick that completed without error the      *)
(* controller state's fan mode flag is Auto exactly when the tick's        *)
(* smoothed temperature is at or below minTemperature, and Manual exactly  *)
(* when it is above, whatever the mode before the tick.                    *)
C13_FanModeFollowsTemperature ==
    (~cfg.monitor /\ loopPc = "log") =>
        (autoFanControl <=> st.AverageTemperature <= minTemperature)

C13_Witness ==
    /\ ~cfg.monitor /\ loopPc = "log"
    /\ tempHistory = <<50, 82>>
    /\ st.AverageTemperature > minTemperature
    /\ ~autoFanControl

FanCap == Min2(fcalc.configMaxFanSpeed, fcalc.limMax)

(* C14 as stated: for every smoothed temperature at or above the           *)
(* configured maxTemp, whatever maxTemp is, the target fan speed is        *)
(* cap = min(configured max fan speed, hardware max fan speed).            *)
C14_CapAtMaxTemp ==
    (fcalc.phase = "out" /\ fcalc.averageTemperature >= fcalc.maxTemperature) =>
        fcalc.result = FanCap

(* C14 amended: for a smoothed temperature at or above maxTemp the target  *)
(* fan speed is cap when the temperature is also above minTemperature, and *)
(* the hardware minimum when it is at or below minTemperature (possible    *)
(* when maxTemp <= minTemperature).                                        *)
C14_CapAboveMinTemperature ==
    (fcalc.phase = "out" /\ fcalc.averageTemperature >= fcalc.maxTemperature) =>
        fcalc.result = IF fcalc.averageTemperature > minTemperature
                       THEN FanCap ELSE fcalc.limMin

C14_Witness ==
    /\ fcalc.phase = "out"
    /\ fcalc.averageTemperature >= fcalc.maxTemperature
    /\ fcalc.averageTemperature <= minTemperature
    /\ fcalc.result = fcalc.limMin
    /\ fcalc.result # FanCap

(* C15: for every smoothed temperature and every configuration the target  *)
(* fan speed lies within [hardware min fan speed, cap], and so within the  *)
(* range fanController.SetSpeed accepts.                                   *)
C15_TargetWithinFanLimits ==
    fcalc.phase = "out" =>
        /\ fcalc.limMin <= fcalc.result /\ fcalc.result <= FanCap
        /\ fcalc.limMin <= fcalc.result /\ fcalc.result <= fcalc.limMax

(* C16: over [minTemperature, maxTemp] the target fan speed does not       *)
(* decrease when the smoothed temperature rises by a degree, under both    *)
(* exponents.                                                              *)
C16_FanSpeedMonotone ==
    (fcalc.phase = "out" /\ fcalc.averageTemperature >= minTemperature
        /\ fcalc.averageTemperature + 1 <= fcalc.maxTemperature) =>
        fcalc.result <= fcalc.next

(* trunc(r * (a/b)^exponent) in exact arithmetic                           *)
ExactScaled(r, a, b, performance) ==
    LET v == IF performance THEN FloorPow15(abs(r), a, b, 0)
             ELSE (abs(r) * a * a) \div (b * b)
    IN  IF r < 0 THEN -v ELSE v

(* C17: for minTemperature < t < maxTemp (and hardware min <= cap) the     *)
(* target fan speed is min + trunc((cap - min) * p^exponent) with          *)
(* p = (t - minTemperature) / (maxTemp - minTemperature).                  *)
C17_FanCurveFormula ==
    (fcalc.phase = "out" /\ fcalc.limMin <= FanCap
        /\ minTemperature < fcalc.averageTemperature
        /\ fcalc.averageTemperature < fcalc.maxTemperature) =>
        fcalc.result = fcalc.limMin
            + ExactScaled(FanCap - fcalc.limMin,
                          fcalc.averageTemperature - minTemperature,
                          fcalc.maxTemperature - minTemperature, fcalc.performance)

(* the facade commands that change fan speed, fan policy or power limit    *)
DeviceWrites == {"SetFanSpeed", "SetPowerLimit", "EnableAutoFanControl"}

IssuedWrites(s) == SelectSeq(s, LAMBDA c : c.op \in DeviceWrites)

(* C18: in monitor mode a tick has issued no SetFanSpeed, SetPowerLimit or  *)
(* EnableAutoFanControl at any point of its execution, and the             *)
(* controller state's fan mode flag, which only a tick's write path sets,  *)
(* is never set.                                                           *)
C18_MonitorTickNoWrites ==
    cfg.monitor =>
        /\ IssuedWrites(issued["tick"]) = <<>>
        /\ ~autoFanControl

(* a monitor-mode tick has computed targets that a regulating tick would   *)
(* have written (fan target away from the reading by more than the         *)
(* hysteresis) and has written nothing                                     *)
C18_Witness ==
    /\ cfg.monitor /\ loopPc = "log"
    /\ st.AverageTemperature > minTemperature
    /\ ~applyHysteresis(st.TargetFanSpeed, st.CurrentFanSpeed, cfgHysteresis)
    /\ issued["tick"] = <<>>

(* C19: in a run in monitor mode no step, from startup through shutdown,   *)
(* changes the hardware's power limit, fan speed or fan policy.            *)
C19_MonitorRunChangesNothing ==
    [][cfg.monitor => UNCHANGED <<devPower, devFan, devFanAuto>>]_vars

(* C20: within a tick nothing is regulated or written before sampling and  *)
(* the filter update are done, nothing is written before the targets are   *)
(* computed, and the filter update of a tick has finished before its       *)
(* regulation starts and before any step of the next tick starts.          *)
C20_TickStepsInOrder ==
    /\ loopPc \in {"getTemperature", "sample", "regulate"} =>
            /\ issued["tick"] = <<>>
            /\ tgt = NoTarget
            /\ st.TargetFanSpeed = 0 /\ st.TargetPowerLimit = 0
    /\ loopPc \in {"getTemperature", "sample"} => st.AverageTemperature = 0
    /\ loopPc \in TickPcs \cup {"select"} => historyUpdate.pc = "idle"

(* C21: a tick that has started completes or fails (or the process ends)   *)
(* in bounded time, also when a facade call it makes never returns.        *)
C21_TickBounded ==
    (loopPc \in TickPcs \cup {"blocked"}) ~>
        (loopPc \notin TickPcs \cup {"blocked"} \/ exit # "running")

(* C22: the moving-average windows and the fan mode flag change only in a  *)
(* step of the control loop's tick, and no history update is running on    *)
(* another goroutine while the loop is past the filter step or in a later  *)
(* tick.                                                                   *)
C22_ControllerStateOwned ==
    [][ /\ <<tempHistory, powerHistory, autoFanControl>>' #
               <<tempHistory, powerHistory, autoFanControl>>
            => (loopPc \in TickPcs /\ (loopPc' # loopPc \/ exit' # exit))
        /\ loopPc' # loopPc => historyUpdate.pc = "idle"
      ]_vars

(* C23: a fan-speed, enable-auto or power-limit command that failed in a   *)
(* tick is the last command of that tick, and the tick has returned the    *)
(* wrapped error to loop, which returns it to run.                         *)
C23_WriteFailureSurfaced ==
    \A i \in 1..Len(issued["tick"]) :
        issued["tick"][i].res # "ok" =>
            /\ i = Len(issued["tick"])
            /\ loopErr = "ErrSetGPUState"
            /\ loopPc \in {"failed", "cleanup", "returned"}

(* the fan write of a tick failed; the tick returned without attempting    *)
(* its power-limit write                                                   *)
C23_Witness ==
    /\ loopPc = "failed" /\ loopErr = "ErrSetGPUState"
    /\ Ops(issued["tick"]) = <<"SetFanSpeed">>
    /\ issued["tick"][1].res = "ErrSetFanSpeed"

(* C24: a step in which the snapshot is recorded, also when Record fails,  *)
(* leaves the device and the commands of the tick untouched, raises no     *)
(* loop error and takes the loop back to its select for the next tick.     *)
C24_RecordFailureNotFatal ==
    [][ issued'["record"] # issued["record"] =>
            /\ loopPc' = "select"
            /\ loopErr' = "none"
            /\ issued'["tick"] = issued["tick"]
            /\ UNCHANGED <<devPower, devFan, devFanAuto, currentLimit, speeds, autoMode>>
      ]_vars

(* the Record of tick 1 failed and tick 2 has started                      *)
C24_Witness ==
    /\ tick = 2 /\ loopPc = "getTemperature"
    /\ issued["record"] = <<[op |-> "Record", val |-> 1, res |-> "ErrMetricsCollection"]>>

(* C25: with a configured interval <= 0 the loop returns the               *)
(* invalid-interval error at its entry: no tick is started, nothing is     *)
(* sampled, filtered or commanded by the loop.                             *)
C25_InvalidIntervalNoTick ==
    cfg.interval <= 0 =>
        /\ tick = 0
        /\ loopPc \in {"start", "failed", "cleanup", "returned"}
        /\ loopPc # "start" => loopErr = "ErrInvalidInterval"
        /\ issued["tick"] = <<>> /\ issued["record"] = <<>>
        /\ tempHistory = <<>> /\ Len(powerHistory) = 1
        /\ st = ZeroState

C25_Witness ==
    /\ cfg.interval = 0
    /\ loopPc = "cleanup" /\ loopErr = "ErrInvalidInterval"
    /\ tick = 0

(* a step of the execution w of cleanup has returned an error              *)
StepFailed(w) == \E i \in 1..Len(issued[w]) : issued[w][i].res \notin {"ok", "noop"}

(* C26: once the process has exited other than by the shutdown timeout,    *)
(* every execution of the shutdown sequence in which a step returned an    *)
(* error (and none blocked) has attempted all its remaining steps.         *)
C26_ShutdownErrorsNotFatal ==
    exit \in {"graceful", "main0", "main1"} =>
        \A w \in Execs :
            (StepFailed(w) /\ cleanupPc[w] # "blocked") => cleanupPc[w] = "done"

(* the last n elements of s                                                *)
LastN(s, n) == SubSeq(s, Len(s) - n + 1, Len(s))

Recent == LastN(win.arrived, Min2(Len(win.arrived), WindowSize(win.kind)))

(* C27: after any sequence of updates a window holds at most 5 samples and *)
(* equals the most recent min(k, 5) of the k samples that arrived, in      *)
(* arrival order.                                                          *)
C27_WindowFifo ==
    win.kind # "off" =>
        /\ Len(win.history) <= 5
        /\ win.history = Recent

(* six samples arrived at a temperature window: the first was evicted      *)
C27_Witness ==
    /\ win.kind = "temperature"
    /\ win.arrived = <<70, 72, 74, 76, 78, 80>>
    /\ win.history = <<72, 74, 76, 78, 80>>

(* the sum of the elements of s from index i on                            *)
RECURSIVE SumFrom(_, _)
SumFrom(s, i) == IF i > Len(s) THEN 0 ELSE s[i] + SumFrom(s, i + 1)

(* C28: an update returns the truncated integer quotient of the sum of the *)
(* window after the append/evict step by its length: samples 70..78 give   *)
(* 74, and a sixth sample 80 gives 76.                                     *)
C28_AverageTruncates ==
    (win.kind # "off" /\ Len(win.arrived) > (IF win.kind = "power" THEN 1 ELSE 0)) =>
        /\ win.avg * Len(Recent) <= SumFrom(Recent, 1)
        /\ SumFrom(Recent, 1) < (win.avg + 1) * Len(Recent)
        /\ win.arrived = <<70, 72, 74, 76, 78>> => win.avg = 74
        /\ win.arrived = <<70, 72, 74, 76, 78, 80>> => win.avg = 76

(* a window that is not full with an average that is not exact             *)
C28_Witness ==
    /\ win.kind = "temperature"
    /\ win.arrived = <<70, 72, 72>>
    /\ win.avg = 71

C30_CleanupAtMostOnce ==
    /\ ~(cleanupPc["signal"] # "idle" /\ cleanupPc["main"] # "idle")
    /\ metricsClosed <= 1

(* C31: after a termination signal the process has exited only when the   *)
(* signal's shutdown sequence has completed or its timeout has expired; in *)
(* particular the loop's return on cancellation never ends the process     *)
(* while the restore of the power limit or the enabling of automatic fan   *)
(* control is still pending.                                               *)
C31_ExitWaitsForShutdown ==
    /\ (cancelled /\ exit # "running") =>
           (cleanupPc["signal"] = "done" \/ exit = "forced")
    /\ exit = "main0" => cleanupPc["signal"] \notin {"setPower", "enableAuto"}

(* C32: with metrics collection disabled the logging step of a tick never  *)
(* crashes, at any log level.                                              *)
C32_LogStepNeverCrashes ==
    ~cfg.metrics => ~(exit = "panic" /\ loopPc = "log")

(* the crash of the process came from a cleanup's metrics.Close            *)
ClosePanicked ==
    \E w \in Execs : \E i \in 1..Len(issued[w]) : issued[w][i].res = "panic"

(* C33: sampling never crashes on the fan-speed list: a tick that samples  *)
(* after the controller has been shut down gets an error or a defined      *)
(* value.                                                                  *)
C33_SamplingNeverCrashes ==
    ~(exit = "panic" /\ loopPc = "sample" /\ ~ClosePanicked)

(* C34: in balanced mode, while the temperature stays below the target,    *)
(* the power limit eventually reaches the hardware maximum, from every     *)
(* starting limit within the hardware limits.                              *)
C34_RestoresToMax ==
    (reg.phase = "regime" /\ reg.side = "below") ~> (reg.limit = PowerMax)

(* C35: in balanced mode, while the temperature stays above the target     *)
(* with the fan at or above the configured max, a power limit above the    *)
(* hardware minimum is eventually lowered.                                 *)
C35_EventuallyLowered ==
    \A l \in (PowerMin + 1)..PowerMax :
        (reg.phase = "regime" /\ reg.side = "above" /\ reg.limit = l) ~> (reg.limit < l)

(* C36: after every completed non-monitor tick (no signal received) the    *)
(* orchestrator's autoFanControl flag is true exactly when the fan         *)
(* controller is in automatic mode, and when the flag is false the device  *)
(* runs its fan at the speed the controller last commanded.                *)
C36_FanModeAgrees ==
    (~cfg.monitor /\ ~cancelled /\ loopPc = "log") =>
        /\ autoFanControl <=> autoMode
        /\ ~autoFanControl => (~devFanAuto /\ devFan = speeds)

(* C37: Close of the metrics repository never crashes, for every           *)
(* configuration NewRepository accepts, also one without a flusher.        *)
C37_CloseNeverCrashes ==
    repo.pc = "open" => repo.close # "panic"

(* the number of times snapshot id occurs in s                             *)
Occurrences(s, id) == Cardinality({i \in 1..Len(s) : s[i] = id})

(* C38: when Close has returned nil and no database operation failed,      *)
(* every snapshot whose Record returned before Close was called is in the  *)
(* database exactly once; and a failed flush leaves the buffer and the     *)
(* database as they were.                                                  *)
C38_RecordedCommittedOnce ==
    /\ []((repo.pc = "open" /\ repo.close = "ok" /\ ~repo.dbFailed) =>
            \A id \in repo.returned : Occurrences(repo.committed, id) = 1)
    /\ [][(repo.pc = "open" /\ repo'.lastFlush = "failed") =>
             /\ IsPrefix(repo.buffer, repo'.buffer)
             /\ repo'.committed = repo.committed]_vars

(* three snapshots in two batches, all committed once Close has returned   *)
C38_Witness ==
    /\ repo.pc = "open" /\ repo.close = "ok" /\ ~repo.dbFailed
    /\ repo.returned = {1, 2, 3}
    /\ repo.committed = <<1, 2, 3>>
    /\ repo.BatchSize = 2

(* C39: the controller is a two-state machine: Initialize on an            *)
(* initialized controller and Shutdown on an uninitialized one return nil  *)
(* and do nothing, and on a controller that is not initialized every       *)
(* command returns the not-initialized error without touching the device.  *)
C39_TwoStateMachine ==
    ctl.pc = "on" =>
        /\ (ctl.last.op = "Initialize" /\ ctl.last.was) =>
              (ctl.last.res = "nil" /\ ~ctl.last.touched)
        /\ (ctl.last.op = "Shutdown" /\ ~ctl.last.was) =>
              (ctl.last.res = "nil" /\ ~ctl.last.touched)
        /\ (ctl.last.op \in Commands /\ ~ctl.last.was) =>
              (ctl.last.res = "ErrNotInitialized" /\ ~ctl.last.touched)
        /\ ctl.initialized <=> (ctl.fanController /\ ctl.powerController)
        /\ ctl.initialized <=> (ctl.fanController \/ ctl.powerController)

(* C40: at most one instance at a time has passed the PID-file check and   *)
(* controls the GPU.                                                       *)
C40_SingleInstance ==
    pidf.pc = "on" => Cardinality({p \in Procs : pidf.at[p] = "running"}) <= 1

====
